---- MODULE Spec2Model ----
(***************************************************************************)
(* Model of the API flow engine of ai-test-agent: the cURL command parser  *)
(* (backend/utils.py), the dynamic rule engine (backend/dynamic_rules.py), *)
(* the execution context (backend/flow_context.py) and the flow runner     *)
(* (backend/runner.py).                                                    *)
(*                                                                         *)
(* Text is modelled as a sequence of one-character strings, so that        *)
(* tokenizing, placeholder matching and path splitting are computed the    *)
(* way the code computes them.  A JSON value (and the Python value it      *)
(* parses to) is a record tagged by its type:                              *)
(*   [t |-> "null"]  [t |-> "bool", v]  [t |-> "num", v]  [t |-> "str", v] *)
(*   [t |-> "arr", v |-> sequence of values]                               *)
(*   [t |-> "obj", v |-> sequence of [k, v] entries] (insertion order)     *)
(***************************************************************************)
EXTENDS Integers, Sequences, FiniteSets, TLC

VARIABLES
    steps,      \* steps[r]: the flow_steps argument of run r
    pc,         \* pc[r]: position of run r inside run_flow_pipeline
    idx,        \* idx[r]: loop index i of run r (0-based, as in the code)
    ctx,        \* ctx[k]: the variables of the ExecutionContext object k
    curl,       \* curl[r]: curl_with_vars of the current step
    cur,        \* cur[r]: step_result of the current step
    tr,         \* tr[r]: test_result of the current step
    results,    \* results[r]: the results list
    errors,     \* errors[r]: the errors list
    sent,       \* sent[r]: the calls of execute_api_request, in order
    ret,        \* ret[r]: the returned dict, once the run has returned
    call,       \* the input of a direct call of a pure function
    out         \* the value that call returned

vars == <<steps, pc, idx, ctx, curl, cur, tr, results, errors, sent, ret, call, out>>

----------------------------------------------------------------------------
(* JSON / Python values *)

JNull == [t |-> "null"]
JBool(b) == [t |-> "bool", v |-> b]
JNum(n) == [t |-> "num", v |-> n]
JStr(s) == [t |-> "str", v |-> s]
JArr(s) == [t |-> "arr", v |-> s]
JObj(s) == [t |-> "obj", v |-> s]
KV(key, val) == [k |-> key, v |-> val]

\* dict: key in d
HasKey(d, key) == \E i \in 1..Len(d.v) : d.v[i].k = key
\* dict: d[key]
GetKey(d, key) == d.v[CHOOSE i \in 1..Len(d.v) : d.v[i].k = key].v
\* dict.get(key, default)
DictGet(d, key, default) == IF HasKey(d, key) THEN GetKey(d, key) ELSE default

\* Python truthiness: bool(v)
Truthy(x) ==
    CASE x.t = "null" -> FALSE
      [] x.t = "bool" -> x.v
      [] x.t = "num" -> x.v # 0
      [] OTHER -> Len(x.v) > 0

----------------------------------------------------------------------------
(* Characters and text *)

Digits == <<"0", "1", "2", "3", "4", "5", "6", "7", "8", "9">>
LowerCase == <<"a", "b", "c", "d", "e", "f", "g", "h", "i", "j", "k", "l", "m",
               "n", "o", "p", "q", "r", "s", "t", "u", "v", "w", "x", "y", "z">>
UpperCase == <<"A", "B", "C", "D", "E", "F", "G", "H", "I", "J", "K", "L", "M",
               "N", "O", "P", "Q", "R", "S", "T", "U", "V", "W", "X", "Y", "Z">>

Range(s) == {s[i] : i \in 1..Len(s)}
IsDigitCh(c) == c \in Range(Digits)
IsLetter(c) == c \in Range(LowerCase) \cup Range(UpperCase)
IsSpace(c) == c \in {" ", "\t", "\n", "\r", "\f"}

\* str.upper() / str.lower() on one character
UpperCh(c) ==
    IF c \in Range(LowerCase)
    THEN UpperCase[CHOOSE i \in 1..26 : LowerCase[i] = c]
    ELSE c
LowerCh(c) ==
    IF c \in Range(UpperCase)
    THEN LowerCase[CHOOSE i \in 1..26 : UpperCase[i] = c]
    ELSE c
Upper(s) == [i \in 1..Len(s) |-> UpperCh(s[i])]
Lower(s) == [i \in 1..Len(s) |-> LowerCh(s[i])]

\* s[from-1:] in Python terms (1-based from)
Drop(s, n) == SubSeq(s, n + 1, Len(s))
Take(s, n) == SubSeq(s, 1, n)

\* s.startswith(p), s.endswith(p)
StartsWith(s, p) == Len(p) <= Len(s) /\ SubSeq(s, 1, Len(p)) = p
EndsWith(s, p) == Len(p) <= Len(s) /\ SubSeq(s, Len(s) - Len(p) + 1, Len(s)) = p

\* sub in s
Contains(s, sub) ==
    \E i \in 1..(Len(s) - Len(sub) + 1) : SubSeq(s, i, i + Len(sub) - 1) = sub

\* s.strip()
RECURSIVE LStrip(_)
LStrip(s) == IF s # <<>> /\ IsSpace(Head(s)) THEN LStrip(Tail(s)) ELSE s
RECURSIVE RStrip(_)
RStrip(s) ==
    IF s # <<>> /\ IsSpace(s[Len(s)]) THEN RStrip(SubSeq(s, 1, Len(s) - 1)) ELSE s
Strip(s) == RStrip(LStrip(s))

\* s.split(sep) for a one-character separator: always at least one part
RECURSIVE SplitFrom(_, _, _, _)
SplitFrom(s, sep, i, part) ==
    IF i > Len(s) THEN <<part>>
    ELSE IF s[i] = sep THEN <<part>> \o SplitFrom(s, sep, i + 1, <<>>)
    ELSE SplitFrom(s, sep, i + 1, Append(part, s[i]))
Split(s, sep) == SplitFrom(s, sep, 1, <<>>)

\* str(n) for an int
RECURSIVE NatToStr(_)
NatToStr(n) ==
    IF n < 10 THEN <<Digits[n + 1]>>
    ELSE Append(NatToStr(n \div 10), Digits[(n % 10) + 1])
IntToStr(n) == IF n < 0 THEN <<"-">> \o NatToStr(-n) ELSE NatToStr(n)

DigitVal(c) == (CHOOSE i \in 1..10 : Digits[i] = c) - 1
\* the value of a string of decimal digits
RECURSIVE DigitsVal(_)
DigitsVal(s) ==
    IF s = <<>> THEN 0
    ELSE DigitsVal(SubSeq(s, 1, Len(s) - 1)) * 10 + DigitVal(s[Len(s)])

\* str.isdigit(): non-empty and every character a digit
IsDigitStr(s) == s # <<>> /\ \A i \in 1..Len(s) : IsDigitCh(s[i])

\* int(s): surrounding whitespace, an optional sign, digits that single
\* underscores may separate.  [ok |-> FALSE] stands for ValueError.
PyIntDigitsOk(d) ==
    /\ d # <<>>
    /\ \A i \in 1..Len(d) : IsDigitCh(d[i]) \/ d[i] = "_"
    /\ d[1] # "_" /\ d[Len(d)] # "_"
    /\ \A i \in 1..(Len(d) - 1) : ~(d[i] = "_" /\ d[i + 1] = "_")
PyInt(s) ==
    LET b == Strip(s)
        neg == b # <<>> /\ b[1] = "-"
        d == IF b # <<>> /\ b[1] \in {"-", "+"} THEN Tail(b) ELSE b
        n == DigitsVal(SelectSeq(d, IsDigitCh))
    IN IF PyIntDigitsOk(d)
       THEN [ok |-> TRUE, n |-> IF neg THEN -n ELSE n]
       ELSE [ok |-> FALSE, n |-> 0]

----------------------------------------------------------------------------
(* json.dumps and str() *)

\* json.dumps of a str: quoted, with " and \ and the control characters escaped
JsonEscapeCh(c) ==
    CASE c = "\"" -> <<"\\", "\"">>
      [] c = "\\" -> <<"\\", "\\">>
      [] c = "\n" -> <<"\\", "n">>
      [] c = "\t" -> <<"\\", "t">>
      [] c = "\r" -> <<"\\", "r">>
      [] c = "\f" -> <<"\\", "f">>
      [] OTHER -> <<c>>
RECURSIVE JsonEscape(_)
JsonEscape(s) ==
    IF s = <<>> THEN <<>> ELSE JsonEscapeCh(Head(s)) \o JsonEscape(Tail(s))
JsonQuote(s) == <<"\"">> \o JsonEscape(s) \o <<"\"">>

RECURSIVE JsonDumps(_)
RECURSIVE JsonDumpsItems(_, _)
RECURSIVE JsonDumpsEntries(_, _)
JsonDumpsItems(a, i) ==
    IF i > Len(a) THEN <<>>
    ELSE (IF i > 1 THEN <<",", " ">> ELSE <<>>)
         \o JsonDumps(a[i]) \o JsonDumpsItems(a, i + 1)
JsonDumpsEntries(d, i) ==
    IF i > Len(d) THEN <<>>
    ELSE (IF i > 1 THEN <<",", " ">> ELSE <<>>)
         \o JsonQuote(d[i].k) \o <<":", " ">> \o JsonDumps(d[i].v)
         \o JsonDumpsEntries(d, i + 1)
JsonDumps(x) ==
    CASE x.t = "null" -> <<"n", "u", "l", "l">>
      [] x.t = "bool" -> IF x.v THEN <<"t", "r", "u", "e">>
                         ELSE <<"f", "a", "l", "s", "e">>
      [] x.t = "num" -> IntToStr(x.v)
      [] x.t = "str" -> JsonQuote(x.v)
      [] x.t = "arr" -> <<"[">> \o JsonDumpsItems(x.v, 1) \o <<"]">>
      [] x.t = "obj" -> <<"{">> \o JsonDumpsEntries(x.v, 1) \o <<"}">>

\* str(x) for None, bool and int
PyStrScalar(x) ==
    CASE x.t = "null" -> <<"N", "o", "n", "e">>
      [] x.t = "bool" -> IF x.v THEN <<"T", "r", "u", "e">>
                         ELSE <<"F", "a", "l", "s", "e">>
      [] x.t = "num" -> IntToStr(x.v)

----------------------------------------------------------------------------
(* flow_context.py *)

\* ExecutionContext.has / get over the variables of one context
CtxHas(c, name) == name \in DOMAIN c
CtxGet(c, name) == c[name]

\* variant: a name that is already stored keeps its value
CtxUpdateKeep(c, values) ==
    [n \in DOMAIN c \cup DOMAIN values |->
        IF n \in DOMAIN c THEN c[n] ELSE values[n]]

\* ExecutionContext.update(values): dict.update
CtxUpdate(c, values) ==
    [n \in DOMAIN c \cup DOMAIN values |->
        IF n \in DOMAIN values THEN values[n] ELSE c[n]]

\* the string the replacer of inject_variables returns for a stored value
ReplacerText(value) ==
    CASE value.t = "str" -> value.v
      [] value.t \in {"arr", "obj"} -> JsonDumps(value)
      [] OTHER -> PyStrScalar(value)

IsIdentStart(c) == IsLetter(c) \/ c = "_"
IsIdentCh(c) == IsLetter(c) \/ IsDigitCh(c) \/ c = "_"

\* length of the longest run of identifier characters of s starting at i
RECURSIVE IdentRun(_, _)
IdentRun(s, i) ==
    IF i <= Len(s) /\ IsIdentCh(s[i]) THEN 1 + IdentRun(s, i + 1) ELSE 0

\* the match of \{\{([a-zA-Z_][a-zA-Z0-9_]*)\}\} that starts at i:
\* the length of its identifier, 0 when there is no match at i
PlaceholderAt(s, i) ==
    IF /\ i + 1 <= Len(s) /\ s[i] = "{" /\ s[i + 1] = "{"
       /\ i + 2 <= Len(s) /\ IsIdentStart(s[i + 2])
    THEN LET n == IdentRun(s, i + 2)
         IN IF /\ i + 3 + n <= Len(s)
               /\ s[i + 2 + n] = "}" /\ s[i + 3 + n] = "}"
            THEN n ELSE 0
    ELSE 0

\* re.sub(pattern, replacer, text) from position i on: the text produced, or the
\* name of the variable whose replacer call raised ValueError
RECURSIVE InjectFrom(_, _, _, _)
InjectFrom(text, c, i, acc) ==
    IF i > Len(text) THEN [ok |-> TRUE, text |-> acc, name |-> <<>>]
    ELSE LET n == PlaceholderAt(text, i)
             var_name == SubSeq(text, i + 2, i + 1 + n)
         IN IF n = 0 THEN InjectFrom(text, c, i + 1, Append(acc, text[i]))
            ELSE IF ~CtxHas(c, var_name)
                 THEN [ok |-> FALSE, text |-> <<>>, name |-> var_name]
            ELSE InjectFrom(text, c, i + 4 + n,
                            acc \o ReplacerText(CtxGet(c, var_name)))

\* the matches of the pattern in a text (two matches never overlap) and the
\* identifiers they name
Occurrences(text) == {i \in 1..Len(text) : PlaceholderAt(text, i) > 0}
NameAt(text, i) == SubSeq(text, i + 2, i + 1 + PlaceholderAt(text, i))
Referenced(text) == {NameAt(text, i) : i \in Occurrences(text)}

\* variant: a missing variable leaves the text as it was instead of raising
KeepOnFailure(injected, text) ==
    IF injected.ok THEN injected ELSE [ok |-> TRUE, text |-> text, name |-> <<>>]
inject_variables_keep(text, c) == KeepOnFailure(InjectFrom(text, c, 1, <<>>), text)

inject_variables(text, c) == InjectFrom(text, c, 1, <<>>)

\* variant: the replacer stores an empty value for each variable it misses
InjectEffectDefault(c, text) ==
    [n \in DOMAIN c \cup Referenced(text) |->
        IF n \in DOMAIN c THEN c[n] ELSE JStr(<<>>)]

\* the variables of the context after inject_variables(text, context): the
\* replacer calls has and get only
InjectEffect(c, text) == c

\* get_nested_value(data, path): the value at the path, None when not found
RECURSIVE NestedValueFrom(_, _, _)
NestedValueFrom(current, keys, i) ==
    IF i > Len(keys) THEN current
    ELSE IF current.t = "null" THEN JNull
    ELSE IF current.t = "arr"
         THEN LET index == PyInt(keys[i])
              IN IF ~index.ok THEN JNull
                 ELSE NestedValueFrom(
                        IF 0 <= index.n /\ index.n < Len(current.v)
                        THEN current.v[index.n + 1] ELSE JNull,
                        keys, i + 1)
    ELSE IF current.t = "obj"
         THEN NestedValueFrom(DictGet(current, keys[i], JNull), keys, i + 1)
    ELSE JNull

get_nested_value(data, path) ==
    IF data.t = "null" THEN JNull
    ELSE NestedValueFrom(data, Split(path, "."), 1)

\* extract_from_response(response_json, extract_rules): {variable: value}
RECURSIVE ExtractFrom(_, _, _, _)
ExtractFrom(response_json, extract_rules, i, extracted) ==
    IF i > Len(extract_rules) THEN extracted
    ELSE LET rule == extract_rules[i]
             value == get_nested_value(response_json, rule.path)
         IN IF rule.path = <<>> \/ rule.variable = <<>>
            THEN ExtractFrom(response_json, extract_rules, i + 1, extracted)
            ELSE IF value # JNull
            THEN ExtractFrom(response_json, extract_rules, i + 1,
                             CtxUpdate(extracted, (rule.variable :> value)))
            ELSE ExtractFrom(response_json, extract_rules, i + 1, extracted)

extract_from_response(response_json, extract_rules) ==
    ExtractFrom(response_json, extract_rules, 1, <<>>)

----------------------------------------------------------------------------
(* dynamic_rules.py *)

\* the string literals of the module
s_status_code == <<"s", "t", "a", "t", "u", "s", "_", "c", "o", "d", "e">>
s_success_flag ==
    <<"s", "u", "c", "c", "e", "s",
      "s", "_", "f", "l", "a", "g">>
s_field_exists ==
    <<"f", "i", "e", "l", "d", "_",
      "e", "x", "i", "s", "t", "s">>
s_field_not_null ==
    <<"f", "i", "e", "l", "d", "_", "n",
      "o", "t", "_", "n", "u", "l", "l">>
s_field_type == <<"f", "i", "e", "l", "d", "_", "t", "y", "p", "e">>
s_response_time ==
    <<"r", "e", "s", "p", "o", "n",
      "s", "e", "_", "t", "i", "m", "e">>
s_custom_expression ==
    <<"c", "u", "s", "t", "o", "m", "_", "e",
      "x", "p", "r", "e", "s", "s", "i", "o", "n">>
s_expectedStatus ==
    <<"e", "x", "p", "e", "c", "t", "e",
      "d", "S", "t", "a", "t", "u", "s">>
s_expectedValue ==
    <<"e", "x", "p", "e", "c", "t",
      "e", "d", "V", "a", "l", "u", "e">>
s_expectedType ==
    <<"e", "x", "p", "e", "c", "t",
      "e", "d", "T", "y", "p", "e">>
s_maxMs == <<"m", "a", "x", "M", "s">>
s_operator == <<"o", "p", "e", "r", "a", "t", "o", "r">>
s_equals == <<"e", "q", "u", "a", "l", "s">>
s_not_equals == <<"n", "o", "t", "_", "e", "q", "u", "a", "l", "s">>
s_contains == <<"c", "o", "n", "t", "a", "i", "n", "s">>
s_greater_than ==
    <<"g", "r", "e", "a", "t", "e",
      "r", "_", "t", "h", "a", "n">>
s_less_than == <<"l", "e", "s", "s", "_", "t", "h", "a", "n">>
s_regex == <<"r", "e", "g", "e", "x">>
s_string == <<"s", "t", "r", "i", "n", "g">>
s_number == <<"n", "u", "m", "b", "e", "r">>
s_boolean == <<"b", "o", "o", "l", "e", "a", "n">>
s_array == <<"a", "r", "r", "a", "y">>
s_object == <<"o", "b", "j", "e", "c", "t">>
s_null == <<"n", "u", "l", "l">>

\* Python ==: bool is an int (True == 1), containers compare by content,
\* values of unrelated types are unequal
NumLike(x) == x.t \in {"bool", "num"}
NumVal(x) == IF x.t = "bool" THEN (IF x.v THEN 1 ELSE 0) ELSE x.v
RECURSIVE PyEq(_, _)
PyEq(a, b) ==
    CASE NumLike(a) /\ NumLike(b) -> NumVal(a) = NumVal(b)
      [] a.t = "null" /\ b.t = "null" -> TRUE
      [] a.t = "str" /\ b.t = "str" -> a.v = b.v
      [] a.t = "arr" /\ b.t = "arr" ->
            /\ Len(a.v) = Len(b.v)
            /\ \A i \in 1..Len(a.v) : PyEq(a.v[i], b.v[i])
      [] a.t = "obj" /\ b.t = "obj" ->
            /\ Len(a.v) = Len(b.v)
            /\ \A i \in 1..Len(a.v) :
                  HasKey(b, a.v[i].k) /\ PyEq(a.v[i].v, GetKey(b, a.v[i].k))
      [] OTHER -> FALSE

\* repr(s) of a str
PyReprEscapeCh(c, q) ==
    CASE c = "\\" -> <<"\\", "\\">>
      [] c = q -> <<"\\", q>>
      [] c = "\n" -> <<"\\", "n">>
      [] c = "\t" -> <<"\\", "t">>
      [] c = "\r" -> <<"\\", "r">>
      [] OTHER -> <<c>>
RECURSIVE PyReprEscape(_, _)
PyReprEscape(s, q) ==
    IF s = <<>> THEN <<>>
    ELSE PyReprEscapeCh(Head(s), q) \o PyReprEscape(Tail(s), q)
PyReprStr(s) ==
    LET q == IF "'" \in Range(s) /\ "\"" \notin Range(s) THEN "\"" ELSE "'"
    IN <<q>> \o PyReprEscape(s, q) \o <<q>>

\* repr(x) and str(x)
RECURSIVE PyRepr(_)
RECURSIVE PyReprItems(_, _)
RECURSIVE PyReprEntries(_, _)
PyReprItems(a, i) ==
    IF i > Len(a) THEN <<>>
    ELSE (IF i > 1 THEN <<",", " ">> ELSE <<>>)
         \o PyRepr(a[i]) \o PyReprItems(a, i + 1)
PyReprEntries(d, i) ==
    IF i > Len(d) THEN <<>>
    ELSE (IF i > 1 THEN <<",", " ">> ELSE <<>>)
         \o PyReprStr(d[i].k) \o <<":", " ">> \o PyRepr(d[i].v)
         \o PyReprEntries(d, i + 1)
PyRepr(x) ==
    CASE x.t = "str" -> PyReprStr(x.v)
      [] x.t = "arr" -> <<"[">> \o PyReprItems(x.v, 1) \o <<"]">>
      [] x.t = "obj" -> <<"{">> \o PyReprEntries(x.v, 1) \o <<"}">>
      [] OTHER -> PyStrScalar(x)
PyStr(x) == IF x.t = "str" THEN x.v ELSE PyRepr(x)

\* float(s) of a str as the fraction num/den: surrounding whitespace, an optional
\* sign, digits with an optional fraction part.  [ok |-> FALSE] is ValueError.
\* Exponents, inf and nan are outside the modelled inputs.
PyFloatStr(s) ==
    LET b == Strip(s)
        neg == b # <<>> /\ b[1] = "-"
        d == IF b # <<>> /\ b[1] \in {"-", "+"} THEN Tail(b) ELSE b
        parts == Split(d, ".")
        ip == parts[1]
        fp == IF Len(parts) = 2 THEN parts[2] ELSE <<>>
        okPart(p) == p = <<>> \/ PyIntDigitsOk(p)
        fd == SelectSeq(fp, IsDigitCh)
        n == DigitsVal(SelectSeq(ip, IsDigitCh) \o fd)
        RECURSIVE Pow10(_)
        Pow10(k) == IF k = 0 THEN 1 ELSE 10 * Pow10(k - 1)
    IN IF /\ Len(parts) <= 2
          /\ okPart(ip) /\ okPart(fp)
          /\ (ip # <<>> \/ fp # <<>>)
       THEN [ok |-> TRUE, num |-> IF neg THEN -n ELSE n, den |-> Pow10(Len(fd))]
       ELSE [ok |-> FALSE, num |-> 0, den |-> 1]

\* float(x): TypeError for None and containers, ValueError for a non-numeric str
PyFloat(x) ==
    CASE NumLike(x) -> [ok |-> TRUE, num |-> NumVal(x), den |-> 1]
      [] x.t = "str" -> PyFloatStr(x.v)
      [] OTHER -> [ok |-> FALSE, num |-> 0, den |-> 1]

\* the registry RULE_TYPES: its keys, 'requiresField' and 'ruleType'
RuleTypeNames ==
    {s_status_code, s_response_time, s_field_exists, s_field_not_null,
     s_field_type, s_success_flag, s_custom_expression}
RequiresField(type) ==
    type \in {s_field_exists, s_field_not_null, s_field_type, s_success_flag,
              s_custom_expression}
RuleCategory(type) ==
    CASE type \in {s_field_exists, s_field_not_null, s_field_type} -> "structural"
      [] type = s_response_time -> "performance"
      [] OTHER -> "functional"

\* get_nested_field(data, field_path): (value, found); exc marks the
\* AttributeError of field_path.split on a truthy value that is no str
RECURSIVE NestedFieldFrom(_, _, _)
NestedFieldFrom(current, parts, i) ==
    IF i > Len(parts) THEN [value |-> current, found |-> TRUE, exc |-> FALSE]
    ELSE IF current.t = "null"
         THEN [value |-> JNull, found |-> FALSE, exc |-> FALSE]
    ELSE IF IsDigitStr(parts[i])
         THEN LET index == DigitsVal(parts[i])
              IN IF current.t = "arr" /\ 0 <= index /\ index < Len(current.v)
                 THEN NestedFieldFrom(current.v[index + 1], parts, i + 1)
                 ELSE [value |-> JNull, found |-> FALSE, exc |-> FALSE]
    ELSE IF current.t = "obj"
         THEN IF HasKey(current, parts[i])
              THEN NestedFieldFrom(GetKey(current, parts[i]), parts, i + 1)
              ELSE [value |-> JNull, found |-> FALSE, exc |-> FALSE]
    ELSE [value |-> JNull, found |-> FALSE, exc |-> FALSE]

\* variant: a path that ends on null is reported as not found
NullIsMissing(r) == [r EXCEPT !.found = r.found /\ r.value # JNull]
get_nested_field_nonnull(data, field_path) ==
    IF ~Truthy(field_path) \/ data.t = "null"
    THEN [value |-> JNull, found |-> FALSE, exc |-> FALSE]
    ELSE IF field_path.t # "str"
    THEN [value |-> JNull, found |-> FALSE, exc |-> TRUE]
    ELSE NullIsMissing(NestedFieldFrom(data, Split(field_path.v, "."), 1))

get_nested_field(data, field_path) ==
    IF ~Truthy(field_path) \/ data.t = "null"
    THEN [value |-> JNull, found |-> FALSE, exc |-> FALSE]
    ELSE IF field_path.t # "str"
    THEN [value |-> JNull, found |-> FALSE, exc |-> TRUE]
    ELSE NestedFieldFrom(data, Split(field_path.v, "."), 1)

\* variant: the int test comes before the bool test
get_type_name_int(value) ==
    CASE value.t = "null" -> s_null
      [] value.t \in {"bool", "num"} -> s_number
      [] value.t = "str" -> s_string
      [] value.t = "arr" -> s_array
      [] value.t = "obj" -> s_object

\* get_type_name(value)
get_type_name(value) ==
    CASE value.t = "null" -> s_null
      [] value.t = "bool" -> s_boolean
      [] value.t = "num" -> s_number
      [] value.t = "str" -> s_string
      [] value.t = "arr" -> s_array
      [] value.t = "obj" -> s_object

\* rule.get(key) / rule.get(key, default) on a rule configuration dict
RuleGet(rule, key, default) == IF key \in DOMAIN rule THEN rule[key] ELSE default

\* variant: a branch that fails leaves no reason
VerdictSilent(passed, why) ==
    [exc |-> FALSE, result |-> IF passed THEN "PASS" ELSE "FAIL", reason |-> JNull]

\* what the body of evaluate_rule's try block leaves in result['result'] and
\* result['reason']; exc marks an exception raised inside the block
Verdict(passed, why) ==
    [exc |-> FALSE, result |-> IF passed THEN "PASS" ELSE "FAIL",
     reason |-> IF passed THEN JNull ELSE why]
Raised == [exc |-> TRUE, result |-> "FAIL", reason |-> JNull]
Reason(kind) == [t |-> "reason", kind |-> kind]

EvalStatusCode(config, status_code) ==
    IF config.t # "obj" THEN Raised
    ELSE LET expected_status == DictGet(config, s_expectedStatus, JNum(200))
         IN Verdict(PyEq(JNum(status_code), expected_status),
                    Reason("Expected status, got"))

SuccessFlagOn(r, expected_value) ==
    IF r.exc THEN Raised
    ELSE IF ~r.found THEN Verdict(FALSE, Reason("Field not found"))
    ELSE Verdict(PyEq(r.value, expected_value), Reason("Expected, got"))
EvalSuccessFlag(config, field, response) ==
    IF config.t # "obj" THEN Raised
    ELSE SuccessFlagOn(get_nested_field(response, field),
                       DictGet(config, s_expectedValue, JBool(TRUE)))

FieldExistsOn(r) ==
    IF r.exc THEN Raised ELSE Verdict(r.found, Reason("Field does not exist"))
EvalFieldExists(field, response) == FieldExistsOn(get_nested_field(response, field))

\* variant: the truth value of the field decides
FieldNotNullOnTruthy(r) ==
    IF r.exc THEN Raised
    ELSE IF ~r.found THEN Verdict(FALSE, Reason("Field does not exist"))
    ELSE IF r.value.t = "null" THEN Verdict(FALSE, Reason("Field is null"))
    ELSE IF r.value.t = "str" /\ Len(Strip(r.value.v)) = 0
         THEN Verdict(FALSE, Reason("Field is empty"))
    ELSE IF ~Truthy(r.value) THEN Verdict(FALSE, Reason("Field is empty"))
    ELSE Verdict(TRUE, JNull)

FieldNotNullOn(r) ==
    IF r.exc THEN Raised
    ELSE IF ~r.found THEN Verdict(FALSE, Reason("Field does not exist"))
    ELSE IF r.value.t = "null" THEN Verdict(FALSE, Reason("Field is null"))
    ELSE IF r.value.t = "str" /\ Len(Strip(r.value.v)) = 0
         THEN Verdict(FALSE, Reason("Field is empty"))
    ELSE IF r.value.t \in {"arr", "obj"} /\ Len(r.value.v) = 0
         THEN Verdict(FALSE, Reason("Field is empty"))
    ELSE Verdict(TRUE, JNull)
EvalFieldNotNull(field, response) == FieldNotNullOn(get_nested_field(response, field))

FieldTypeOn(r, expected_type) ==
    IF r.exc THEN Raised
    ELSE IF ~r.found THEN Verdict(FALSE, Reason("Field does not exist"))
    ELSE Verdict(PyEq(JStr(get_type_name(r.value)), expected_type),
                 Reason("Expected type, got"))
EvalFieldType(config, field, response) ==
    IF config.t # "obj" THEN Raised
    ELSE FieldTypeOn(get_nested_field(response, field),
                     DictGet(config, s_expectedType, JStr(s_string)))

\* variant: < in place of <=
ResponseTimeOnStrict(max_ms, response_time_ms) ==
    IF ~NumLike(max_ms) THEN Raised
    ELSE Verdict(response_time_ms < NumVal(max_ms), Reason("Response time exceeds"))

\* response_time_ms <= max_ms raises TypeError unless max_ms is a number
ResponseTimeOn(max_ms, response_time_ms) ==
    IF ~NumLike(max_ms) THEN Raised
    ELSE Verdict(response_time_ms <= NumVal(max_ms), Reason("Response time exceeds"))
EvalResponseTime(config, response_time_ms) ==
    IF config.t # "obj" THEN Raised
    ELSE ResponseTimeOn(DictGet(config, s_maxMs, JNum(2000)), response_time_ms)

\* the quote stripping of custom_expression
StripQuotes(expected_value) ==
    IF StartsWith(expected_value, <<"\"">>) /\ EndsWith(expected_value, <<"\"">>)
    THEN SubSeq(expected_value, 2, Len(expected_value) - 1)
    ELSE IF StartsWith(expected_value, <<"'">>) /\ EndsWith(expected_value, <<"'">>)
    THEN SubSeq(expected_value, 2, Len(expected_value) - 1)
    ELSE expected_value

\* re.search(pattern, s) for the patterns modelled: a pattern without
\* metacharacters is searched literally; an unbalanced ( or [ and a leading
\* quantifier raise re.error
RegexMeta == {".", "^", "$", "*", "+", "?", "{", "}", "[", "]", "(", ")", "|", "\\"}
RegexLiteral(pattern) == \A i \in 1..Len(pattern) : pattern[i] \notin RegexMeta
RegexError(pattern) ==
    \/ pattern # <<>> /\ pattern[1] \in {"*", "+", "?"}
    \/ pattern \in {<<"(">>, <<"[">>, <<")">>}
RegexSearch(pattern, s) == RegexLiteral(pattern) /\ Contains(s, pattern)

\* float(value) > float(expected_value) and <, on the fractions a and b
NumericCompare(a, b, greater) ==
    IF ~a.ok \/ ~b.ok
    THEN Verdict(FALSE, Reason("Cannot compare non-numeric values"))
    ELSE Verdict(IF greater THEN a.num * b.den > b.num * a.den
                 ELSE a.num * b.den < b.num * a.den,
                 Reason("Value does not match"))

\* the operator chain of custom_expression; text is str(value)
CompareOn(operator, expected_value, value, text) ==
    CASE PyEq(operator, JStr(s_equals)) ->
            Verdict(text = expected_value, Reason("Value does not match"))
      [] PyEq(operator, JStr(s_not_equals)) ->
            Verdict(text # expected_value, Reason("Value does not match"))
      [] PyEq(operator, JStr(s_contains)) ->
            Verdict(Contains(text, expected_value), Reason("Value does not match"))
      [] PyEq(operator, JStr(s_greater_than)) ->
            NumericCompare(PyFloat(value), PyFloat(JStr(expected_value)), TRUE)
      [] PyEq(operator, JStr(s_less_than)) ->
            NumericCompare(PyFloat(value), PyFloat(JStr(expected_value)), FALSE)
      [] PyEq(operator, JStr(s_regex)) ->
            IF RegexError(expected_value)
            THEN Verdict(FALSE, Reason("Invalid regex"))
            ELSE Verdict(RegexSearch(expected_value, text),
                         Reason("Value does not match"))
      [] OTHER -> Verdict(FALSE, Reason("Value does not match"))
EvalCompare(operator, expected_value, value) ==
    CompareOn(operator, expected_value, value, PyStr(value))

\* variant: the value is compared before the field is tested for presence
CustomExpressionOnEager(r, operator, raw) ==
    IF raw.t # "str" THEN Raised
    ELSE IF r.exc THEN Raised
    ELSE EvalCompare(operator, StripQuotes(raw.v), r.value)

CustomExpressionOn(r, operator, raw) ==
    IF raw.t # "str" THEN Raised
    ELSE IF r.exc THEN Raised
    ELSE IF ~r.found THEN Verdict(FALSE, Reason("Field does not exist"))
    ELSE EvalCompare(operator, StripQuotes(raw.v), r.value)
EvalCustomExpression(config, field, response) ==
    IF config.t # "obj" THEN Raised
    ELSE CustomExpressionOn(get_nested_field(response, field),
                            DictGet(config, s_operator, JStr(s_equals)),
                            DictGet(config, s_expectedValue, JStr(<<>>)))

\* the try block of evaluate_rule
EvalBody(rule_type, field, config, response, response_time_ms, status_code) ==
    CASE PyEq(rule_type, JStr(s_status_code)) -> EvalStatusCode(config, status_code)
      [] PyEq(rule_type, JStr(s_success_flag)) ->
            EvalSuccessFlag(config, field, response)
      [] PyEq(rule_type, JStr(s_field_exists)) -> EvalFieldExists(field, response)
      [] PyEq(rule_type, JStr(s_field_not_null)) -> EvalFieldNotNull(field, response)
      [] PyEq(rule_type, JStr(s_field_type)) -> EvalFieldType(config, field, response)
      [] PyEq(rule_type, JStr(s_response_time)) ->
            EvalResponseTime(config, response_time_ms)
      [] PyEq(rule_type, JStr(s_custom_expression)) ->
            EvalCustomExpression(config, field, response)
      [] OTHER -> Verdict(FALSE, Reason("Unknown rule type"))

\* RULE_TYPES.get(rule_type, {}) hashes its key: a list or a dict raises TypeError
Hashable(x) == x.t \notin {"arr", "obj"}

\* the result dict built around the outcome of the try block (its
\* expected/actual display strings are left out)
RuleResult(rule, rule_type, field, body) ==
    [raised |-> FALSE,
     rule_id |-> RuleGet(rule, "id", JNull),
     rule_type |-> IF rule_type.t = "str" /\ rule_type.v \in RuleTypeNames
                   THEN RuleCategory(rule_type.v) ELSE "functional",
     field |-> field,
     result |-> body.result,
     reason |-> IF body.exc THEN Reason("Rule evaluation error") ELSE body.reason]

\* evaluate_rule(rule, response, response_time_ms, status_code): the result
\* dict, or raised |-> TRUE when the call raises
evaluate_rule(rule, response, response_time_ms, status_code) ==
    IF ~Hashable(RuleGet(rule, "type", JNull))
    THEN [raised |-> TRUE]
    ELSE RuleResult(rule, RuleGet(rule, "type", JNull), RuleGet(rule, "field", JNull),
                    EvalBody(RuleGet(rule, "type", JNull),
                             RuleGet(rule, "field", JNull),
                             RuleGet(rule, "config", JObj(<<>>)),
                             response, response_time_ms, status_code))

\* rule.get('enabled', True)
RuleEnabled(rule) == Truthy(RuleGet(rule, "enabled", JBool(TRUE)))

\* apply_dynamic_rules(rules, response, response_time_ms, status_code): the list
\* of results, or raised |-> TRUE when a call of evaluate_rule raises
RECURSIVE ApplyFrom(_, _, _, _, _, _)
ApplyResult(rules, response, response_time_ms, status_code, i, acc, result) ==
    IF result.raised THEN [raised |-> TRUE, results |-> <<>>]
    ELSE ApplyFrom(rules, response, response_time_ms, status_code, i + 1,
                   Append(acc, result))
ApplyFrom(rules, response, response_time_ms, status_code, i, acc) ==
    IF i > Len(rules) THEN [raised |-> FALSE, results |-> acc]
    ELSE IF ~RuleEnabled(rules[i])
         THEN ApplyFrom(rules, response, response_time_ms, status_code, i + 1, acc)
    ELSE ApplyResult(rules, response, response_time_ms, status_code, i, acc,
                     evaluate_rule(rules[i], response, response_time_ms, status_code))

apply_dynamic_rules(rules, response, response_time_ms, status_code) ==
    ApplyFrom(rules, response, response_time_ms, status_code, 1, <<>>)

\* f"{prefix}.{key}" if prefix else key
FieldPath(prefix, key) == IF prefix # <<>> THEN prefix \o <<".">> \o key ELSE key
\* isinstance(value, (dict, list))
IsContainer(value) == value.t \in {"arr", "obj"}

\* variant: the last item of the list stands for the list
LastItem(data) == data.v[Len(data.v)]
\* first_item = data[0]
FirstItem(data) == data.v[1]

\* extract_response_fields(data, prefix, max_depth): the list of field paths;
\* DictFields is its loop over data.items() from entry i on
RECURSIVE extract_response_fields(_, _, _)
RECURSIVE DictFields(_, _, _, _)
DictFields(entries, i, prefix, max_depth) ==
    IF i > Len(entries) THEN <<>>
    ELSE <<FieldPath(prefix, entries[i].k)>>
         \o (IF IsContainer(entries[i].v)
             THEN extract_response_fields(entries[i].v,
                                          FieldPath(prefix, entries[i].k),
                                          max_depth - 1)
             ELSE <<>>)
         \o DictFields(entries, i + 1, prefix, max_depth)
extract_response_fields(data, prefix, max_depth) ==
    IF max_depth <= 0 THEN <<>>
    ELSE IF data.t = "obj" THEN DictFields(data.v, 1, prefix, max_depth)
    ELSE IF data.t = "arr" /\ Len(data.v) > 0
    THEN IF IsContainer(FirstItem(data))
         THEN extract_response_fields(FirstItem(data), FieldPath(prefix, <<"0">>),
                                      max_depth - 1)
         ELSE <<FieldPath(prefix, <<"0">>)>>
    ELSE <<>>

\* RULE_TYPES[type]['configFields']: name, type and, for a select, options
ConfigField(name, type, options) == [name |-> name, type |-> type, options |-> options]
ConfigFields(type) ==
    CASE type = s_status_code -> <<ConfigField(s_expectedStatus, "number", <<>>)>>
      [] type = s_response_time -> <<ConfigField(s_maxMs, "number", <<>>)>>
      [] type = s_field_type ->
            <<ConfigField(s_expectedType, "select",
                          <<s_string, s_number, s_boolean, s_array, s_object>>)>>
      [] type = s_success_flag -> <<ConfigField(s_expectedValue, "boolean", <<>>)>>
      [] type = s_custom_expression ->
            <<ConfigField(s_operator, "select",
                          <<s_equals, s_not_equals, s_contains, s_greater_than,
                            s_less_than, s_regex>>),
              ConfigField(s_expectedValue, "text", <<>>)>>
      [] OTHER -> <<>>

\* the outcome of validate_rule_config: (True, None), (False, error) or an
\* exception that leaves the function
Valid == [raised |-> FALSE, valid |-> TRUE, error |-> "none"]
Invalid(error) == [raised |-> FALSE, valid |-> FALSE, error |-> error]
ValidateRaised == [raised |-> TRUE, valid |-> FALSE, error |-> "none"]

\* value in a_list, by ==
PyIn(value, a_list) == \E i \in 1..Len(a_list.v) : PyEq(a_list.v[i], value)

\* the type validation of one config value that is not None
ConfigValueError(field_def, value) ==
    CASE field_def.type = "number" ->
            IF PyFloat(value).ok THEN "none" ELSE "must be a number"
      [] field_def.type = "boolean" ->
            IF value.t = "bool" THEN "none" ELSE "must be a boolean"
      [] field_def.type = "select" ->
            IF value.t = "str" /\ value.v \in Range(field_def.options)
            THEN "none" ELSE "must be one of"
      [] OTHER -> "none"

\* the loop over configFields from definition i on; every definition of the
\* registry has a default, so a missing value is never an error; config.get
\* raises AttributeError when config is no dict
RECURSIVE ValidateConfigFrom(_, _, _)
ValidateConfigFrom(config, field_defs, i) ==
    IF i > Len(field_defs) THEN Valid
    ELSE IF config.t # "obj" THEN ValidateRaised
    ELSE IF DictGet(config, field_defs[i].name, JNull) # JNull
            /\ ConfigValueError(field_defs[i],
                                DictGet(config, field_defs[i].name, JNull)) # "none"
    THEN Invalid(ConfigValueError(field_defs[i],
                                  DictGet(config, field_defs[i].name, JNull)))
    ELSE ValidateConfigFrom(config, field_defs, i + 1)

\* variant: any list that is given is checked, an empty one included
FieldListGivenAny(available_fields) == available_fields # JNull
\* if available_fields and ...
FieldListGiven(available_fields) == Truthy(available_fields)

\* the check of the field of a type that requires one
ValidateField(field, available_fields) ==
    IF ~Truthy(field) THEN "Field is required"
    ELSE IF FieldListGiven(available_fields) /\ ~PyIn(field, available_fields)
    THEN "Field not found in response"
    ELSE "none"

\* validate_rule_config(rule, available_fields); available_fields is None
\* (JNull) when it is not given
validate_rule_config(rule, available_fields) ==
    IF ~Truthy(RuleGet(rule, "type", JNull)) THEN Invalid("Rule type is required")
    ELSE IF ~Hashable(rule.type) THEN ValidateRaised
    ELSE IF rule.type.t # "str" \/ rule.type.v \notin RuleTypeNames
    THEN Invalid("Unknown rule type")
    ELSE IF RequiresField(rule.type.v)
            /\ ValidateField(RuleGet(rule, "field", JNull), available_fields) # "none"
    THEN Invalid(ValidateField(RuleGet(rule, "field", JNull), available_fields))
    ELSE ValidateConfigFrom(RuleGet(rule, "config", JObj(<<>>)),
                            ConfigFields(rule.type.v), 1)

----------------------------------------------------------------------------
(* utils.py *)

s_curl == <<"c", "u", "r", "l">>
s_GET == <<"G", "E", "T">>
s_POST == <<"P", "O", "S", "T">>
s_http == <<"h", "t", "t", "p", ":", "/", "/">>
s_https == <<"h", "t", "t", "p", "s", ":", "/", "/">>
s_ContentType == <<"C", "o", "n", "t", "e", "n", "t", "-", "T", "y", "p", "e">>
s_applicationJson ==
    <<"a", "p", "p", "l", "i", "c", "a", "t", "i", "o", "n", "/", "j", "s", "o", "n">>
s_UserAgent == <<"U", "s", "e", "r", "-", "A", "g", "e", "n", "t">>

MethodFlags == {<<"-", "X">>, <<"-", "-", "r", "e", "q", "u", "e", "s", "t">>}
HeaderFlags == {<<"-", "H">>, <<"-", "-", "h", "e", "a", "d", "e", "r">>}
DataFlags ==
    {<<"-", "d">>, <<"-", "-", "d", "a", "t", "a">>,
     <<"-", "-", "d", "a", "t", "a", "-", "r", "a", "w">>,
     <<"-", "-", "d", "a", "t", "a", "-", "b", "i", "n", "a", "r", "y">>}
JsonFlag == <<"-", "-", "j", "s", "o", "n">>
InsecureFlags == {<<"-", "k">>, <<"-", "-", "i", "n", "s", "e", "c", "u", "r", "e">>}
UserAgentFlags == {<<"-", "A">>, <<"-", "-", "u", "s", "e", "r", "-", "a", "g", "e", "n", "t">>}
\* variant: no skipped flag takes an argument
SkipArgNone == {}
\* the skipped flags that take an argument
SkipArgFlags ==
    {<<"-", "o">>, <<"-", "-", "o", "u", "t", "p", "u", "t">>,
     <<"-", "w">>, <<"-", "-", "w", "r", "i", "t", "e", "-", "o", "u", "t">>,
     <<"-", "c">>, <<"-", "-", "c", "o", "o", "k", "i", "e", "-", "j", "a", "r">>,
     <<"-", "b">>, <<"-", "-", "c", "o", "o", "k", "i", "e">>}
\* all the skipped flags
SkipFlags ==
    SkipArgFlags \cup
    {<<"-", "v">>, <<"-", "-", "v", "e", "r", "b", "o", "s", "e">>,
     <<"-", "s">>, <<"-", "-", "s", "i", "l", "e", "n", "t">>,
     <<"-", "S">>, <<"-", "-", "s", "h", "o", "w", "-", "e", "r", "r", "o", "r">>,
     <<"-", "L">>, <<"-", "-", "l", "o", "c", "a", "t", "i", "o", "n">>,
     <<"-", "i">>, <<"-", "-", "i", "n", "c", "l", "u", "d", "e">>}

\* re.sub(r'\\\s*\n\s*', ' ', s): a backslash followed by a run of whitespace
\* that holds a newline becomes one space
RECURSIVE SpaceRun(_, _)
SpaceRun(s, i) == IF i <= Len(s) /\ IsSpace(s[i]) THEN 1 + SpaceRun(s, i + 1) ELSE 0
\* the places from i on where such a run starts
Continuations(s, i) ==
    {j \in i..Len(s) :
        s[j] = "\\" /\ "\n" \in Range(SubSeq(s, j + 1, j + SpaceRun(s, j + 1)))}
RECURSIVE JoinContinuations(_, _)
JoinAt(s, i, j) ==
    SubSeq(s, i, j - 1) \o <<" ">> \o JoinContinuations(s, j + 1 + SpaceRun(s, j + 1))
JoinContinuations(s, i) ==
    IF Continuations(s, i) = {} THEN SubSeq(s, i, Len(s))
    ELSE JoinAt(s, i, CHOOSE j \in Continuations(s, i) :
                          \A k \in Continuations(s, i) : j <= k)

\* shlex.split(s): the POSIX tokenizer with whitespace_split and no comments.
\* state is "ws" (between tokens), "a" (in a word), a quote character or the
\* escape character; ok |-> FALSE is its ValueError (no closing quotation, no
\* escaped character).
ShlexSpace(c) == c \in {" ", "\t", "\r", "\n"}
ShlexQuote(c) == c \in {"'", "\""}
\* the tokenizer before the first character
ShlexStart ==
    [state |-> "ws", escapedstate |-> " ", token |-> <<>>, quoted |-> FALSE,
     tokens |-> <<>>]
\* the tokenizer st after it has read the character c
ShlexChar(st, c) ==
    CASE st.state = "ws" ->
            IF ShlexSpace(c)
            THEN [st EXCEPT !.token = <<>>, !.quoted = FALSE]
            ELSE IF c = "\\"
            THEN [st EXCEPT !.state = "\\", !.escapedstate = "a", !.token = <<>>,
                            !.quoted = FALSE]
            ELSE IF ShlexQuote(c)
            THEN [st EXCEPT !.state = c, !.token = <<>>, !.quoted = FALSE]
            ELSE [st EXCEPT !.state = "a", !.token = <<c>>, !.quoted = FALSE]
      [] ShlexQuote(st.state) ->
            IF c = st.state
            THEN [st EXCEPT !.state = "a", !.quoted = TRUE]
            ELSE IF c = "\\" /\ st.state = "\""
            THEN [st EXCEPT !.state = "\\", !.escapedstate = st.state,
                            !.quoted = TRUE]
            ELSE [st EXCEPT !.token = Append(@, c), !.quoted = TRUE]
      [] st.state = "\\" ->
            [st EXCEPT !.state = st.escapedstate,
                       !.token = (IF ShlexQuote(st.escapedstate) /\ c # "\\"
                                     /\ c # st.escapedstate
                                  THEN Append(@, "\\") ELSE @) \o <<c>>]
      [] st.state = "a" ->
            IF ShlexSpace(c)
            THEN [st EXCEPT !.state = "ws", !.token = <<>>, !.quoted = FALSE,
                            !.tokens = IF st.token # <<>> \/ st.quoted
                                       THEN Append(@, st.token) ELSE @]
            ELSE IF ShlexQuote(c)
            THEN [st EXCEPT !.state = c]
            ELSE IF c = "\\"
            THEN [st EXCEPT !.state = "\\", !.escapedstate = "a"]
            ELSE [st EXCEPT !.token = Append(@, c)]
\* the states of the tokenizer
ShlexState(st) == st.state \in {"ws", "a", "\\", "'", "\""}
\* the tokenizer st after it has read s[lo..hi] in order: the first half, then
\* the second. st is looked at before any character is read, so that each half
\* is finished before the next one starts.
RECURSIVE ShlexFrom(_, _, _, _)
ShlexFrom(s, lo, hi, st) ==
    IF lo > hi \/ ~ShlexState(st) THEN st
    ELSE IF lo = hi THEN ShlexChar(st, s[lo])
    ELSE ShlexFrom(s, (lo + hi) \div 2 + 1, hi,
                   ShlexFrom(s, lo, (lo + hi) \div 2, st))
\* the end of the input
ShlexEnd(st) ==
    CASE st.state = "ws" -> [ok |-> TRUE, tokens |-> st.tokens]
      [] st.state = "a" -> [ok |-> TRUE, tokens |->
                              IF st.token # <<>> \/ st.quoted
                              THEN Append(st.tokens, st.token) ELSE st.tokens]
      [] OTHER -> [ok |-> FALSE, tokens |-> <<>>]

shlex_split(s) == ShlexEnd(ShlexFrom(s, 1, Len(s), ShlexStart))

\* variant: a header that is already set keeps its value
SetHeaderOnce(headers, key, value) ==
    [h \in DOMAIN headers \cup {key} |->
        IF h \in DOMAIN headers THEN headers[h] ELSE value]
\* result['headers'][key] = value
SetHeader(headers, key, value) ==
    [h \in DOMAIN headers \cup {key} |-> IF h = key THEN value ELSE headers[h]]

\* the -H argument: split on the first colon, both sides stripped
ColonAt(header) ==
    CHOOSE i \in 1..Len(header) :
        header[i] = ":" /\ \A j \in 1..(i - 1) : header[j] # ":"
HeaderKey(header) == Strip(Take(header, ColonAt(header) - 1))
HeaderValue(header) == Strip(Drop(header, ColonAt(header)))

HasScheme(token) == StartsWith(token, s_http) \/ StartsWith(token, s_https)

\* variant: a body never changes the method
PromoteNever(method) == method
\* if result['method'] == 'GET': result['method'] = 'POST'
PromoteMethod(method) == IF method = s_GET THEN s_POST ELSE method

\* the token loop of parse_curl from index i (1-based) on
RECURSIVE ParseTokens(_, _, _)
ParseTokens(tokens, i, result) ==
    IF i > Len(tokens) THEN result
    ELSE LET token == tokens[i]
             more == i + 1 <= Len(tokens)
         IN CASE token \in MethodFlags ->
                    IF more
                    THEN ParseTokens(tokens, i + 2,
                            [result EXCEPT !.method = Upper(tokens[i + 1])])
                    ELSE ParseTokens(tokens, i + 1, result)
              [] token \in HeaderFlags ->
                    IF more
                    THEN ParseTokens(tokens, i + 2,
                            IF ":" \in Range(tokens[i + 1])
                            THEN [result EXCEPT !.headers =
                                    SetHeader(@, HeaderKey(tokens[i + 1]),
                                              HeaderValue(tokens[i + 1]))]
                            ELSE result)
                    ELSE ParseTokens(tokens, i + 1, result)
              [] token \in DataFlags ->
                    IF more
                    THEN ParseTokens(tokens, i + 2,
                            [result EXCEPT
                                !.data = JStr(tokens[i + 1]),
                                !.method = PromoteMethod(@)])
                    ELSE ParseTokens(tokens, i + 1, result)
              [] token = JsonFlag ->
                    IF more
                    THEN ParseTokens(tokens, i + 2,
                            [result EXCEPT
                                !.data = JStr(tokens[i + 1]),
                                !.headers = SetHeader(@, s_ContentType,
                                                      s_applicationJson),
                                !.method = PromoteMethod(@)])
                    ELSE ParseTokens(tokens, i + 1, result)
              [] token \in InsecureFlags ->
                    ParseTokens(tokens, i + 1, [result EXCEPT !.verify_ssl = FALSE])
              [] token \in SkipFlags ->
                    ParseTokens(tokens, IF token \in SkipArgFlags THEN i + 2 ELSE i + 1,
                                result)
              [] token \in UserAgentFlags ->
                    IF more
                    THEN ParseTokens(tokens, i + 2,
                            [result EXCEPT !.headers =
                                SetHeader(@, s_UserAgent, tokens[i + 1])])
                    ELSE ParseTokens(tokens, i + 1, result)
              [] OTHER ->
                    IF ~StartsWith(token, <<"-">>)
                       /\ (HasScheme(token) \/ "." \in Range(token))
                    THEN ParseTokens(tokens, i + 1,
                            [result EXCEPT !.url =
                                JStr(IF HasScheme(token) THEN token
                                     ELSE s_https \o token)])
                    ELSE ParseTokens(tokens, i + 1, result)

\* the 'curl' prefix is removed
StripCurl(joined) ==
    IF StartsWith(Lower(joined), s_curl) THEN Strip(Drop(joined, 4)) ELSE joined

EmptyDescriptor ==
    [method |-> s_GET, url |-> JNull, headers |-> <<>>, data |-> JNull,
     verify_ssl |-> TRUE]

ParsedOr(result) ==
    IF ~Truthy(result.url) THEN [ok |-> FALSE, why |-> "No URL found"]
    ELSE [ok |-> TRUE, why |-> "", req |-> result]
ParseLexed(lexed) ==
    IF ~lexed.ok THEN [ok |-> FALSE, why |-> "Failed to parse cURL command"]
    ELSE ParsedOr(ParseTokens(lexed.tokens, 1, EmptyDescriptor))

\* parse_curl(curl_command): ok with the descriptor; ok |-> FALSE is its
\* ValueError, why telling "Failed to parse cURL command" from "No URL found"
parse_curl(curl_command) ==
    ParseLexed(shlex_split(StripCurl(JoinContinuations(Strip(curl_command), 1))))

----------------------------------------------------------------------------
(* rules.py: the legacy rules, applied when a step has no custom rules *)

s_error == <<"e", "r", "r", "o", "r">>
s_message == <<"m", "e", "s", "s", "a", "g", "e">>

LegacyNames ==
    <<"Status Code Rule", "Response Exists Rule", "Valid JSON Rule",
      "No Error Field Rule">>
LegacyResult(name, passed, why) ==
    [rule_name |-> name, result |-> IF passed THEN "PASS" ELSE "FAIL",
     reason |-> IF passed THEN JNull ELSE Reason(why)]

\* a response of the executor: status code, elapsed time and body; the body is
\* valid JSON (json is what response.json() returns) or it is not (empty tells
\* whether response.text.strip() is empty)
status_code_rule(response) ==
    LegacyResult(LegacyNames[1], 200 <= response.status /\ response.status < 300,
                 "Expected 2xx status code")
response_exists_rule(response) ==
    LegacyResult(LegacyNames[2], ~response.body.empty, "Response body is empty")
valid_json_rule(response) ==
    LegacyResult(LegacyNames[3], response.body.valid, "Response is not valid JSON")
no_error_field_rule(response) ==
    LET data == response.body.json
    IN IF response.body.valid /\ data.t = "obj" /\ HasKey(data, s_error)
       THEN LegacyResult(LegacyNames[4], FALSE, "Response contains error")
       ELSE IF /\ response.body.valid /\ data.t = "obj"
               /\ HasKey(data, s_message) /\ response.status >= 400
       THEN LegacyResult(LegacyNames[4], FALSE, "Response contains error message")
       ELSE LegacyResult(LegacyNames[4], TRUE, "")

apply_rules(response) ==
    <<status_code_rule(response), response_exists_rule(response),
      valid_json_rule(response), no_error_field_rule(response)>>

----------------------------------------------------------------------------
(* runner.py *)

Err(msg) == [t |-> "error", msg |-> msg]

\* the four FAIL entries run_test_pipeline reports for a timeout or a
\* connection error
FailAll(why) == [i \in 1..4 |-> LegacyResult(LegacyNames[i], FALSE, why)]

\* Step 3 of run_test_pipeline: the dynamic rules when the step has custom
\* rules, the legacy rules otherwise
RulesFor(custom_rules, response_json, o) ==
    IF Len(custom_rules) > 0
    THEN apply_dynamic_rules(custom_rules, response_json, o.ms, o.status)
    ELSE [raised |-> FALSE, results |-> apply_rules(o)]

ResponseJson(o) == IF o.body.valid THEN o.body.json ELSE JNull

EmptyTestResult ==
    [success |-> FALSE, rule_results |-> <<>>, error |-> JNull,
     status_code |-> JNull, response_time_ms |-> JNull, response_json |-> JNull,
     requested |-> FALSE, req |-> JNull, reply |-> "none"]

HasFail(rule_results) ==
    \E i \in 1..Len(rule_results) : rule_results[i].result = "FAIL"

\* variant: a FAIL verdict is reported as an error of the pipeline
FailIsError(answer) ==
    IF answer.error = JNull /\ HasFail(answer.rule_results)
    THEN [answer EXCEPT !.error = Err("Validation failed")] ELSE answer
AnsweredStrict(asked, o, applied) ==
    FailIsError(
        CASE applied.raised -> [asked EXCEPT !.error = Err("Unexpected error")]
          [] ~o.post -> [asked EXCEPT !.error = Err("Unexpected error"),
                                      !.rule_results = applied.results]
          [] OTHER -> [asked EXCEPT !.success = TRUE,
                                    !.rule_results = applied.results,
                                    !.status_code = JNum(o.status),
                                    !.response_time_ms = JNum(o.ms),
                                    !.response_json = ResponseJson(o)])

\* the pipeline once a response has arrived and the rules were applied
Answered(asked, o, applied) ==
    CASE applied.raised -> [asked EXCEPT !.error = Err("Unexpected error")]
      [] ~o.post -> [asked EXCEPT !.error = Err("Unexpected error"),
                                  !.rule_results = applied.results]
      [] OTHER -> [asked EXCEPT !.success = TRUE,
                                !.rule_results = applied.results,
                                !.status_code = JNum(o.status),
                                !.response_time_ms = JNum(o.ms),
                                !.response_json = ResponseJson(o)]

\* variant: a timeout or a connection error is reported by the rule results
\* only, error stays None
RequestedSwallow(asked, custom_rules, o) ==
    CASE o.kind = "timeout" ->
            [asked EXCEPT !.rule_results = FailAll("Request timed out")]
      [] o.kind = "connection" ->
            [asked EXCEPT !.rule_results = FailAll("Connection failed")]
      [] OTHER -> [asked EXCEPT !.success = TRUE,
                                !.status_code = JNum(o.status),
                                !.response_time_ms = JNum(o.ms),
                                !.response_json = ResponseJson(o)]

\* the pipeline once the command is parsed
Requested(asked, custom_rules, o) ==
    CASE o.kind = "timeout" ->
            [asked EXCEPT !.error = Err("API request timed out"),
                          !.rule_results = FailAll("Request timed out")]
      [] o.kind = "connection" ->
            [asked EXCEPT !.error = Err("Connection failed"),
                          !.rule_results = FailAll("Connection failed")]
      [] OTHER -> Answered(asked, o, RulesFor(custom_rules, ResponseJson(o), o))

PipelineOn(parsed, custom_rules, o) ==
    IF ~parsed.ok
    THEN [EmptyTestResult EXCEPT !.error =
            Err(IF parsed.why = "Failed to parse cURL command"
                THEN "Invalid URL" ELSE "Invalid cURL command")]
    ELSE Requested([EmptyTestResult EXCEPT !.requested = TRUE, !.req = parsed.req,
                                           !.reply = o.kind],
                   custom_rules, o)

\* run_test_pipeline(curl_command, custom_rules=...) when the executor and the
\* report steps behave as outcome o says:
\*   o.kind = "timeout" / "connection": requests raises Timeout / ConnectionError
\*   o.kind = "ok": a response arrives; o.post = FALSE when a later step of the
\*   pipeline (pytest file, pytest run, reports, metadata) raises
\* requested/req record the descriptor handed to execute_api_request, reply
\* what the executor did with it.
run_test_pipeline(curl_command, custom_rules, o) ==
    PipelineOn(parse_curl(curl_command), custom_rules, o)

----------------------------------------------------------------------------
(* Inputs of the flow runs *)

\* the longest flow
MaxSteps == 2

v_t == <<"t">>
RuleStatus == [id |-> JNum(1), type |-> JStr(s_status_code)]
RuleListType == [id |-> JNum(2), type |-> JArr(<<JStr(s_status_code)>>)]

\* a step: login, extracting d.t into t
StepLogin ==
    [name |-> "login", curl |-> <<"c", "u", "r", "l", " ", "h", ".", "c", "/", "a">>, customRules |-> <<RuleStatus>>,
     extractRules |-> <<[path |-> <<"d", ".", "t">>, variable |-> v_t]>>]
\* a step whose URL holds the placeholder of t; legacy rules
StepUse ==
    [name |-> "use",
     curl |-> <<"c", "u", "r", "l", " ", "-", "X", " ", "p", "u", "t", " ", "h", ".", "c", "/", "{", "{", "t", "}", "}">>,
     customRules |-> <<>>, extractRules |-> <<>>]
\* a step whose payload holds the placeholder of t inside quotes
StepData ==
    [name |-> "data",
     curl |-> <<"c", "u", "r", "l", " ", "h", ".", "c", " ", "-", "d", " ", "'", "{", "{", "t", "}", "}", "'">>,
     customRules |-> <<RuleStatus>>, extractRules |-> <<>>]
\* a step whose command has no URL
StepNoUrl ==
    [name |-> "nourl", curl |-> <<"c", "u", "r", "l", " ", "-", "k">>, customRules |-> <<>>,
     extractRules |-> <<>>]
\* a step one of whose rules has a list as its type
StepListType ==
    [name |-> "listtype", curl |-> <<"h", ".", "c">>, customRules |-> <<RuleStatus, RuleListType>>,
     extractRules |-> <<>>]

\* a step extracting d.t into u
StepAlias ==
    [name |-> "alias", curl |-> <<"c", "u", "r", "l", " ", "h", ".", "c", "/", "b">>, customRules |-> <<>>,
     extractRules |-> <<[path |-> <<"d", ".", "t">>, variable |-> <<"u">>]>>]

StepPool == {StepLogin, StepUse, StepData, StepNoUrl, StepListType, StepAlias}
Flows == UNION {[1..n -> StepPool] : n \in 1..MaxSteps}

JsonBody(json) == [valid |-> TRUE, json |-> json, empty |-> FALSE]
TextBody == [valid |-> FALSE, json |-> JNull, empty |-> FALSE]
BodySpace == JObj(<<KV(<<"d">>, JObj(<<KV(<<"t">>, JStr(<<"x", " ", "y">>))>>))>>)
BodyPlain == JObj(<<KV(<<"d">>, JObj(<<KV(<<"t">>, JStr(<<"z">>))>>))>>)

Ok(status, ms, body, post) ==
    [kind |-> "ok", status |-> status, ms |-> ms, body |-> body, post |-> post]
\* what the executor and the report steps can do on one call
Outcomes ==
    {Ok(200, 10, JsonBody(BodySpace), TRUE), Ok(404, 10, JsonBody(BodyPlain), TRUE),
     Ok(200, 10, TextBody, TRUE), Ok(200, 10, JsonBody(BodySpace), FALSE),
     [kind |-> "timeout"], [kind |-> "connection"]}

----------------------------------------------------------------------------
(* run_flow_pipeline, one invocation per run *)

Runs == {"A", "B"}
None == [t |-> "none"]

\* variant: one module-level context serves every invocation
ContextKeyShared(r) == "A"

\* context = ExecutionContext(): every invocation owns the object it creates
ContextKey(r) == r
RunCtx(r) == ctx[ContextKey(r)]

Step(r) == steps[r][idx[r] + 1]

\* variant: the steps are numbered from 1
NewStepResultFromOne(i) ==
    [stepIndex |-> i + 1, success |-> FALSE, statusCode |-> JNull,
     responseTimeMs |-> JNull, ruleResults |-> <<>>, extractedVars |-> <<>>,
     error |-> JNull]

NewStepResult(i) ==
    [stepIndex |-> i, success |-> FALSE, statusCode |-> JNull,
     responseTimeMs |-> JNull, ruleResults |-> <<>>, extractedVars |-> <<>>,
     error |-> JNull]

\* variant: any() in place of all()
FlowReturnAny(r) ==
    [success |-> /\ Len(results[r]) > 0
                 /\ \E i \in 1..Len(results[r]) : results[r][i].success,
     results |-> results[r],
     executionContext |-> ctx[r],
     errors |-> errors[r],
     totalSteps |-> Len(steps[r]),
     completedSteps |-> Len(results[r])]

\* the returned dict
FlowReturn(r) ==
    [success |-> /\ Len(errors[r]) = 0
                 /\ \A i \in 1..Len(results[r]) : results[r][i].success,
     results |-> results[r],
     executionContext |-> RunCtx(r),
     errors |-> errors[r],
     totalSteps |-> Len(steps[r]),
     completedSteps |-> Len(results[r])]

\* entry: context, results and errors are created
Start(r) ==
    /\ pc[r] = "pending"
    /\ pc' = [pc EXCEPT ![r] = "loop"]
    /\ idx' = [idx EXCEPT ![r] = 0]
    /\ ctx' = [ctx EXCEPT ![ContextKey(r)] = <<>>]
    /\ results' = [results EXCEPT ![r] = <<>>]
    /\ errors' = [errors EXCEPT ![r] = <<>>]
    /\ UNCHANGED <<steps, curl, cur, tr, sent, ret, call, out>>

\* top of the loop body: step_result is created and the variables are injected
\* into the step's command; a ValueError of inject_variables ends the flow
Inject(r) ==
    /\ pc[r] = "loop"
    /\ idx[r] < Len(steps[r])
    /\ LET injected == inject_variables(Step(r).curl, RunCtx(r))
           failed == [NewStepResult(idx[r]) EXCEPT
                        !.error = [t |-> "error",
                                   msg |-> "Variable not found in execution context",
                                   name |-> injected.name]]
       IN IF injected.ok
          THEN /\ curl' = [curl EXCEPT ![r] = injected.text]
               /\ cur' = [cur EXCEPT ![r] = NewStepResult(idx[r])]
               /\ pc' = [pc EXCEPT ![r] = "execute"]
               /\ UNCHANGED <<results, errors>>
          ELSE /\ cur' = [cur EXCEPT ![r] = failed]
               /\ results' = [results EXCEPT ![r] = Append(@, failed)]
               /\ errors' = [errors EXCEPT ![r] =
                                Append(@, [step |-> idx[r], error |-> failed.error])]
               /\ pc' = [pc EXCEPT ![r] = "return"]
               /\ UNCHANGED curl
    /\ ctx' = [ctx EXCEPT ![ContextKey(r)] = InjectEffect(@, Step(r).curl)]
    /\ UNCHANGED <<steps, idx, tr, sent, ret, call, out>>

\* step_result after the copy of test_result into it
Copied(step_result, test_result) ==
    [step_result EXCEPT
        !.success = test_result.success,
        !.statusCode = test_result.status_code,
        !.responseTimeMs = test_result.response_time_ms,
        !.ruleResults = test_result.rule_results,
        !.error = test_result.error]

ExecuteWith(r, test_result) ==
    /\ tr' = [tr EXCEPT ![r] = test_result]
    /\ sent' = [sent EXCEPT ![r] =
                  IF test_result.requested
                  THEN Append(@, [step |-> idx[r], req |-> test_result.req,
                                  reply |-> test_result.reply])
                  ELSE @]
    /\ cur' = [cur EXCEPT ![r] = Copied(@, test_result)]
    /\ IF test_result.error # JNull
       THEN /\ results' = [results EXCEPT ![r] = Append(@, cur'[r])]
            /\ errors' = [errors EXCEPT ![r] =
                            Append(@, [step |-> idx[r], error |-> test_result.error])]
            /\ pc' = [pc EXCEPT ![r] = "return"]
            /\ UNCHANGED idx
       ELSE IF Len(Step(r).extractRules) > 0 /\ test_result.response_json # JNull
       THEN /\ pc' = [pc EXCEPT ![r] = "extract"]
            /\ UNCHANGED <<results, errors, idx>>
       ELSE /\ results' = [results EXCEPT ![r] = Append(@, cur'[r])]
            /\ idx' = [idx EXCEPT ![r] = @ + 1]
            /\ pc' = [pc EXCEPT ![r] = "loop"]
            /\ UNCHANGED errors

\* run_test_pipeline is called and its result copied into step_result; an error
\* ends the flow, otherwise the step goes on to extraction or is appended
Execute(r) ==
    /\ pc[r] = "execute"
    /\ \E o \in Outcomes :
         ExecuteWith(r, run_test_pipeline(curl[r], Step(r).customRules, o))
    /\ UNCHANGED <<steps, ctx, curl, ret, call, out>>

\* the values are extracted from the response and merged into the context
Extract(r) ==
    /\ pc[r] = "extract"
    /\ LET extracted == extract_from_response(tr[r].response_json,
                                              Step(r).extractRules)
           step_result == [cur[r] EXCEPT !.extractedVars = extracted]
       IN /\ ctx' = [ctx EXCEPT ![ContextKey(r)] = CtxUpdate(@, extracted)]
          /\ cur' = [cur EXCEPT ![r] = step_result]
          /\ results' = [results EXCEPT ![r] = Append(@, step_result)]
    /\ idx' = [idx EXCEPT ![r] = @ + 1]
    /\ pc' = [pc EXCEPT ![r] = "loop"]
    /\ UNCHANGED <<steps, curl, tr, errors, sent, ret, call, out>>

\* the loop has ended, by exhaustion or by break: the dict is returned
Return(r) ==
    /\ \/ pc[r] = "loop" /\ idx[r] = Len(steps[r])
       \/ pc[r] = "return"
    /\ ret' = [ret EXCEPT ![r] = FlowReturn(r)]
    /\ pc' = [pc EXCEPT ![r] = "done"]
    /\ UNCHANGED <<steps, idx, ctx, curl, cur, tr, results, errors, sent, call, out>>

Idle == [r \in Runs |-> None]
InitRuns(flows, first) ==
    /\ steps = flows
    /\ pc = first
    /\ idx = [r \in Runs |-> 0]
    /\ ctx = [r \in Runs |-> <<>>]
    /\ curl = [r \in Runs |-> <<>>]
    /\ cur = Idle
    /\ tr = Idle
    /\ results = [r \in Runs |-> <<>>]
    /\ errors = [r \in Runs |-> <<>>]
    /\ sent = [r \in Runs |-> <<>>]
    /\ ret = Idle

\* one flow invocation, A, of any flow of the pool
Init ==
    /\ \E f \in Flows :
         InitRuns([r \in Runs |-> IF r = "A" THEN f ELSE <<>>],
                  [r \in Runs |-> IF r = "A" THEN "pending" ELSE "idle"])
    /\ call = None
    /\ out = None

Next == \E r \in Runs : Start(r) \/ Inject(r) \/ Execute(r) \/ Extract(r) \/ Return(r)

Spec == Init /\ [][Next]_vars

----------------------------------------------------------------------------
(* Properties of a flow run *)

Ended(r) == pc[r] \in {"return", "done"}

\* the variables step k of run r references that the run's context lacks
MissingAt(r, k) == Referenced(steps[r][k].curl) \ DOMAIN RunCtx(r)

\* the extractedVars of the first n step results, merged in order
RECURSIVE Merged(_, _)
Merged(rs, n) ==
    IF n = 0 THEN <<>> ELSE CtxUpdate(Merged(rs, n - 1), rs[n].extractedVars)

\* every declared step has one result and one request, in declared order
StepsInOrder(r) ==
    /\ Len(results[r]) = Len(steps[r])
    /\ \A i \in 1..Len(results[r]) : results[r][i].stepIndex = i - 1
    /\ Len(sent[r]) = Len(steps[r])
    /\ \A i \in 1..Len(sent[r]) : sent[r][i].step = i - 1

InjectionMsg == "Variable not found in execution context"
IsError(e, msgs) == e # JNull /\ e.msg \in msgs

\* no step result of run r carries an error with one of the messages
NoErrorOf(r, msgs) ==
    \A i \in 1..Len(results[r]) : ~IsError(results[r][i].error, msgs)

\* C1: when the template of step k references a variable the context lacks at
\* that moment, the flow fails at step k: no request is executed for step k or
\* a later step, the results end with step k's entry (error set, success
\* false), errors has exactly one entry and the aggregate success is false.
C1_MissingVariableFailsFlow ==
    \A r \in Runs :
        /\ pc[r] \in {"execute", "extract"} => MissingAt(r, idx[r] + 1) = {}
        /\ (Ended(r) /\ MissingAt(r, Len(results[r])) # {}) =>
              LET k == Len(results[r])
              IN /\ results[r][k].stepIndex = k - 1
                 /\ results[r][k].error # JNull
                 /\ ~results[r][k].success
                 /\ Len(errors[r]) = 1
                 /\ \A j \in 1..Len(sent[r]) : sent[r][j].step < k - 1
                 /\ pc[r] = "done" =>
                       /\ ~ret[r].success
                       /\ ret[r].results = results[r]
                       /\ ret[r].completedSteps = k

\* C1 witness: step 2 of a finished flow failed on a missing variable after
\* step 1 had succeeded
C1_Witness ==
    \E r \in Runs :
        /\ pc[r] = "done" /\ Len(results[r]) = 2
        /\ results[r][1].success
        /\ MissingAt(r, 2) # {}
        /\ IsError(results[r][2].error, {InjectionMsg})

\* C2 as stated: in a flow where no injection, transport or timeout error
\* occurs, every declared step is executed exactly once, in declared order.
C2_Original ==
    \A r \in Runs :
        (/\ pc[r] = "done"
         /\ NoErrorOf(r, {InjectionMsg, "API request timed out", "Connection failed"}))
        => StepsInOrder(r)

\* C2, amended: in a flow where no step ends with an error, every declared
\* step is executed exactly once, in declared order; a FAIL verdict of a rule
\* at step k is recorded in that step's ruleResults, is no error, and never
\* prevents step k+1 from running.
C2_NoErrorRunsEveryStep ==
    \A r \in Runs :
        pc[r] = "done" =>
            /\ (\A i \in 1..Len(results[r]) : results[r][i].error = JNull)
                  => StepsInOrder(r)
            /\ \A i \in 1..Len(results[r]) :
                  (results[r][i].success /\ HasFail(results[r][i].ruleResults)) =>
                      /\ results[r][i].error = JNull
                      /\ i < Len(steps[r]) => Len(results[r]) > i

\* C2 witness: step 1 had a FAIL verdict and step 2 ran all the same
C2_Witness ==
    \E r \in Runs :
        /\ pc[r] = "done" /\ Len(results[r]) = 2 /\ StepsInOrder(r)
        /\ HasFail(results[r][1].ruleResults)
        /\ results[r][1].error = JNull /\ results[r][2].error = JNull

\* C3: when the executor reports a timeout or a connection error at step k,
\* step k's result carries a non-null error, no request is issued for a later
\* step, no variable is extracted from step k, and the aggregate success is
\* false.
C3_TransportErrorStopsFlow ==
    \A r \in Runs : \A j \in 1..Len(sent[r]) :
        sent[r][j].reply \in {"timeout", "connection"} =>
            LET k == sent[r][j].step + 1
            IN /\ j = Len(sent[r])
               /\ Ended(r)
               /\ Len(results[r]) = k
               /\ results[r][k].error # JNull
               /\ results[r][k].extractedVars = <<>>
               /\ RunCtx(r) = Merged(results[r], k - 1)
               /\ pc[r] = "done" =>
                     /\ ~ret[r].success
                     /\ ret[r].executionContext = Merged(results[r], k - 1)

\* C3 witness: the first request of a two-step flow timed out
C3_Witness ==
    \E r \in Runs :
        /\ pc[r] = "done" /\ Len(steps[r]) = 2
        /\ Len(sent[r]) = 1 /\ sent[r][1].reply = "timeout"

\* the texts of a request descriptor
DescriptorTexts(req) ==
    {req.method} \cup (IF req.url = JNull THEN {} ELSE {req.url.v})
    \cup (IF req.data = JNull THEN {} ELSE {req.data.v})
    \cup DOMAIN req.headers \cup {req.headers[h] : h \in DOMAIN req.headers}

PlaceholderOf(v) == <<"{", "{">> \o v \o <<"}", "}">>

\* C4: the descriptor sent for step j holds, for every variable its template
\* references that an earlier step extracted, the literal extracted value in
\* place of the placeholder.
C4_SentDescriptorHoldsValue ==
    \A r \in Runs : \A j \in 1..Len(sent[r]) :
        LET k == sent[r][j].step + 1
            before == Merged(results[r], k - 1)
            texts == DescriptorTexts(sent[r][j].req)
        IN \A v \in Referenced(steps[r][k].curl) \cap DOMAIN before :
              /\ \E txt \in texts : Contains(txt, ReplacerText(before[v]))
              /\ \A txt \in texts : ~Contains(txt, PlaceholderOf(v))

ContextChange(r) ==
    ctx'[ContextKey(r)] # ctx[ContextKey(r)] =>
        /\ pc[r] = "extract"
        /\ cur[r].error = JNull /\ cur[r].success
        /\ ctx'[ContextKey(r)] =
              CtxUpdate(ctx[ContextKey(r)],
                        results'[r][Len(results'[r])].extractedVars)

\* C7: in a flow run the context is changed only by the extract-and-merge of a
\* step that completed without error; injection, execution, rule evaluation
\* and a step that ends with an error leave it unchanged, so the returned
\* snapshot is the context after the last successful extraction.
C7_OnlyExtractionChangesContext ==
    /\ [][\A r \in Runs : ContextChange(r)]_vars
    /\ [](\A r \in Runs :
            /\ pc[r] \notin {"idle", "pending"} =>
                  RunCtx(r) = Merged(results[r], Len(results[r]))
            /\ pc[r] = "done" => ret[r].executionContext = RunCtx(r))

\* C7 witness: a flow whose step 1 extracted a variable and whose step 2 ended
\* with an error returned the context of step 1
C7_Witness ==
    \E r \in Runs :
        /\ pc[r] = "done" /\ Len(results[r]) = 2
        /\ results[r][1].extractedVars # <<>>
        /\ results[r][2].error # JNull
        /\ ret[r].executionContext = results[r][1].extractedVars

----------------------------------------------------------------------------
(* Two concurrent flow runs *)

ConcFlows == {<<StepLogin>>, <<StepUse>>, <<StepLogin, StepUse>>}

InitConc ==
    /\ \E fa \in ConcFlows : \E fb \in ConcFlows :
         InitRuns([r \in Runs |-> IF r = "A" THEN fa ELSE fb],
                  [r \in Runs |-> "pending"])
    /\ call = None
    /\ out = None

SpecConc == InitConc /\ [][Next]_vars

\* what run r has extracted so far
OwnVars(r) == Merged(results[r], Len(results[r]))

\* a step that is not run r's leaves run r's context as it was
OthersStep(r) == pc'[r] = pc[r] => ctx'[ContextKey(r)] = ctx[ContextKey(r)]

\* C6: two concurrent flow runs have independent contexts: neither observes
\* nor modifies the variables of the other, and the executionContext each
\* returns holds only values its own steps extracted.
C6_IndependentContexts ==
    /\ [][\A r \in Runs : OthersStep(r)]_vars
    /\ [](\A r \in Runs :
            /\ pc[r] \in {"loop", "execute", "extract", "return", "done"} =>
                  RunCtx(r) = OwnVars(r)
            /\ pc[r] = "execute" =>
                  curl[r] = inject_variables(Step(r).curl, OwnVars(r)).text
            /\ (Ended(r) /\ MissingAt(r, Len(results[r])) # {}) =>
                  IsError(results[r][Len(results[r])].error, {InjectionMsg})
            /\ pc[r] = "done" => ret[r].executionContext = OwnVars(r))

\* C6 witness: both runs have returned, one with the variable it extracted, the
\* other, which extracted nothing, failed on that variable
C6_Witness ==
    /\ pc["A"] = "done" /\ pc["B"] = "done"
    /\ v_t \in DOMAIN ret["A"].executionContext
    /\ ret["B"].executionContext = <<>>
    /\ IsError(results["B"][1].error, {InjectionMsg})

----------------------------------------------------------------------------
(* inject_variables called on its own *)

\* the longest text, in atoms
MaxAtoms == 3

v_u == <<"u">>
Atoms == {<<"{", "{", "t", "}", "}">>, <<"{", "{", "u", "}", "}">>, <<"{", "{">>, <<"t">>, <<"}", "}">>, <<"-">>}

RECURSIVE Flatten(_)
Flatten(ss) == IF ss = <<>> THEN <<>> ELSE Head(ss) \o Flatten(Tail(ss))

Texts == {Flatten(ss) : ss \in UNION {[1..n -> Atoms] : n \in 0..MaxAtoms}}

InjectContexts ==
    {<<>>,
     (v_t :> JStr(<<"x", " ", "y">>)),
     (v_u :> JNum(7)),
     (v_t :> JStr(<<"{", "{", "u", "}", "}">>)) @@ (v_u :> JBool(TRUE)),
     (v_t :> JArr(<<JNum(1), JStr(<<"q", "\"">>)>>)) @@ (v_u :> JNull)}

\* no flow is running
Quiet == InitRuns([r \in Runs |-> <<>>], [r \in Runs |-> "idle"])

InitInject ==
    /\ Quiet
    /\ \E text \in Texts : \E c \in InjectContexts :
         call = [fn |-> "inject_variables", text |-> text, ctx |-> c]
    /\ out = None

CallInject ==
    /\ call.fn = "inject_variables" /\ out = None
    /\ out' = [value |-> inject_variables(call.text, call.ctx),
               ctx |-> InjectEffect(call.ctx, call.text)]
    /\ UNCHANGED <<steps, pc, idx, ctx, curl, cur, tr, results, errors, sent,
                   ret, call>>

NextInject == CallInject

SpecInject == InitInject /\ [][NextInject]_vars

\* the text with the matches at the positions occ replaced, the rightmost first
RECURSIVE ReplaceAll(_, _, _)
ReplaceAll(text, c, occ) ==
    IF occ = {} THEN text
    ELSE LET i == CHOOSE x \in occ : \A y \in occ : y <= x
         IN ReplaceAll(SubSeq(text, 1, i - 1)
                         \o ReplacerText(c[NameAt(text, i)])
                         \o SubSeq(text, i + 4 + PlaceholderAt(text, i), Len(text)),
                       c, occ \ {i})

MissingIn(text, c) == {i \in Occurrences(text) : NameAt(text, i) \notin DOMAIN c}
Leftmost(occ) == CHOOSE x \in occ : \A y \in occ : x <= y

InjectedAsExpected(text, c, value) ==
    IF MissingIn(text, c) = {}
    THEN /\ value.ok
         /\ value.text = ReplaceAll(text, c, Occurrences(text))
    ELSE /\ ~value.ok
         /\ value.text = <<>>
         /\ value.name = NameAt(text, Leftmost(MissingIn(text, c)))

\* C8: inject_variables replaces every {{identifier}} occurrence by the string
\* form of the variable's current value and changes nothing else; when an
\* identifier is missing from the context it fails naming that identifier and
\* yields no partially substituted text; the context is not modified.
C8_InjectVariables ==
    (out # None /\ call.fn = "inject_variables") =>
        /\ InjectedAsExpected(call.text, call.ctx, out.value)
        /\ out.ctx = call.ctx

\* C8 witness: a text with the placeholders of two variables was substituted
C8_Witness ==
    /\ out # None /\ call.fn = "inject_variables"
    /\ out.value.ok
    /\ Referenced(call.text) = {v_t, v_u}
    /\ out.value.text # call.text

----------------------------------------------------------------------------
(* extract_from_response called on its own *)

\* the longest path, in segments
MaxSegs == 2

Segs == {<<"a">>, <<"b">>, <<"0">>, <<"1">>, <<"+", "0">>}

RECURSIVE JoinDots(_)
JoinDots(ss) ==
    IF Len(ss) = 1 THEN ss[1] ELSE ss[1] \o <<".">> \o JoinDots(Tail(ss))

Paths == {JoinDots(ss) : ss \in UNION {[1..n -> Segs] : n \in 1..MaxSegs}}

Trees ==
    {JObj(<<KV(<<"a">>, JArr(<<JStr(<<"p">>), JNull>>))>>),
     JObj(<<KV(<<"0">>, JStr(<<"q">>)), KV(<<"a">>, JObj(<<KV(<<"b">>, JNum(5))>>))>>),
     JArr(<<JStr(<<"p">>), JObj(<<KV(<<"a">>, JNull)>>)>>),
     JObj(<<KV(<<"a">>, JObj(<<KV(<<"0">>, JArr(<<JNum(7)>>))>>))>>),
     JObj(<<KV(<<"a">>, JBool(FALSE)), KV(<<"b">>, JStr(<<"p">>))>>)}

InitExtract ==
    /\ Quiet
    /\ \E tree \in Trees : \E path \in Paths :
         call = [fn |-> "extract_from_response", tree |-> tree, path |-> path]
    /\ out = None

CallExtract ==
    /\ call.fn = "extract_from_response" /\ out = None
    /\ out' = [value |-> extract_from_response(
                            call.tree, <<[path |-> call.path, variable |-> v_t]>>)]
    /\ UNCHANGED <<steps, pc, idx, ctx, curl, cur, tr, results, errors, sent,
                   ret, call>>

NextExtract == CallExtract

SpecExtract == InitExtract /\ [][NextExtract]_vars

SameAsResolved(extracted, resolved) ==
    /\ ~resolved.exc
    /\ (v_t \in DOMAIN extracted) <=> resolved.found
    /\ resolved.found => extracted[v_t] = resolved.value

\* C9: extraction resolves paths exactly as the field resolver does: for every
\* JSON tree and every extraction rule with a non-empty path and variable,
\* the variable is mapped to v exactly when get_nested_field(tree, path)
\* returns (v, found); when it reports not found the variable is absent and no
\* error is raised.
C9_ExtractionResolvesLikeRules ==
    (out # None /\ call.fn = "extract_from_response") =>
        SameAsResolved(out.value, get_nested_field(call.tree, JStr(call.path)))

----------------------------------------------------------------------------
(* apply_dynamic_rules called on its own *)

\* the longest rule list
MaxRules == 3

s_d == <<"d">>
RuleFieldD == [id |-> JNum(3), type |-> JStr(s_field_exists), field |-> JStr(s_d)]
RuleUnknown == [id |-> JNum(4), type |-> JStr(<<"x">>)]
RuleDisabled == [id |-> JNum(5), type |-> JStr(s_status_code), enabled |-> JBool(FALSE)]
RuleNoConfig == [id |-> JNum(6), type |-> JStr(s_response_time), config |-> JNull]

RulePool == {RuleStatus, RuleListType, RuleFieldD, RuleUnknown, RuleDisabled, RuleNoConfig}
RuleLists == UNION {[1..n -> RulePool] : n \in 1..MaxRules}

\* a response: its JSON, the elapsed time and the status code
RuleResponses ==
    {[json |-> BodySpace, ms |-> 10, status |-> 200],
     [json |-> JNull, ms |-> 10, status |-> 404]}

InitRules ==
    /\ Quiet
    /\ \E rules \in RuleLists : \E response \in RuleResponses :
         call = [fn |-> "apply_dynamic_rules", rules |-> rules, response |-> response]
    /\ out = None

CallRules ==
    /\ call.fn = "apply_dynamic_rules" /\ out = None
    /\ out' = [value |-> apply_dynamic_rules(call.rules, call.response.json,
                                             call.response.ms, call.response.status)]
    /\ UNCHANGED <<steps, pc, idx, ctx, curl, cur, tr, results, errors, sent,
                   ret, call>>

NextRules == CallRules

SpecRules == InitRules /\ [][NextRules]_vars

NotDisabled(rule) == RuleGet(rule, "enabled", JBool(TRUE)) # JBool(FALSE)
UnknownType(rule) ==
    ~(\E name \in RuleTypeNames : RuleGet(rule, "type", JNull) = JStr(name))

OneResultPerRule(expected, value) ==
    /\ ~value.raised
    /\ Len(value.results) = Len(expected)
    /\ \A i \in 1..Len(expected) :
          /\ value.results[i].rule_id = RuleGet(expected[i], "id", JNull)
          /\ value.results[i].result \in {"PASS", "FAIL"}
          /\ UnknownType(expected[i]) => value.results[i].result = "FAIL"

\* C10: apply_dynamic_rules returns exactly one result for each rule whose
\* enabled flag is not false, in the order of the input list and carrying the
\* rule's id; disabled rules produce no result; a rule with an unknown type or
\* one that triggers an internal error yields a FAIL result and neither aborts
\* the batch nor changes the results of the other rules.
C10_OneResultPerEnabledRule ==
    (out # None /\ call.fn = "apply_dynamic_rules") =>
        OneResultPerRule(SelectSeq(call.rules, NotDisabled), out.value)

----------------------------------------------------------------------------
(* evaluate_rule called on its own *)

\* a key the rule dict does not have
Absent == [t |-> "absent"]

\* the rule dict with id 1 and the keys that are given
RuleOf(type, field, config) ==
    [k \in {"id"} \cup (IF type = Absent THEN {} ELSE {"type"})
                  \cup (IF field = Absent THEN {} ELSE {"field"})
                  \cup (IF config = Absent THEN {} ELSE {"config"}) |->
        CASE k = "id" -> JNum(1)
          [] k = "type" -> type
          [] k = "field" -> field
          [] k = "config" -> config]

EvalTypes ==
    {JStr(name) : name \in RuleTypeNames}
    \cup {JStr(<<"x">>), Absent, JNum(5), JArr(<<JStr(s_status_code)>>)}

\* the response body the rules are evaluated on
EvalTree ==
    JObj(<<KV(<<"s">>, JStr(<<"7">>)), KV(<<"n">>, JNum(7)),
           KV(<<"b">>, JBool(TRUE)), KV(<<"f">>, JBool(FALSE)),
           KV(<<"o", "n", "e">>, JNum(1)), KV(<<"z", "e", "r", "o">>, JNum(0)),
           KV(<<"z">>, JNull), KV(<<"e">>, JStr(<<" ", " ">>)),
           KV(<<"l">>, JArr(<<>>)), KV(<<"o">>, JObj(<<>>)),
           KV(<<"a">>, JArr(<<JStr(<<"p">>)>>)), KV(<<"t">>, JStr(<<"t", "r", "u", "e">>))>>)

EvalFields ==
    {JStr(EvalTree.v[i].k) : i \in 1..Len(EvalTree.v)}
    \cup {JStr(<<"m">>), JStr(<<"a", ".", "0">>), Absent, JNum(3)}

Compare(operator, expected_value) ==
    JObj(<<KV(s_operator, JStr(operator)), KV(s_expectedValue, expected_value)>>)

EvalConfigs ==
    {Absent, JNull, JObj(<<>>),
     JObj(<<KV(s_expectedStatus, JNum(404))>>),
     JObj(<<KV(s_expectedValue, JBool(FALSE))>>),
     JObj(<<KV(s_expectedType, JStr(s_number))>>),
     JObj(<<KV(s_expectedType, JStr(s_boolean))>>),
     JObj(<<KV(s_maxMs, JNum(10))>>),
     JObj(<<KV(s_maxMs, JStr(<<"1", "0">>))>>),
     Compare(s_greater_than, JStr(<<"5">>)),
     Compare(s_less_than, JStr(<<"5">>)),
     Compare(s_greater_than, JStr(<<"0">>)),
     Compare(s_greater_than, JStr(<<"'", "5", ".", "5", "'">>)),
     Compare(s_less_than, JStr(<<"x">>)),
     Compare(s_greater_than, JNum(5))}

EvalRules ==
    {RuleOf(type, field, config) :
        type \in EvalTypes, field \in EvalFields, config \in EvalConfigs}

EvalResponses ==
    {[json |-> EvalTree, ms |-> 10, status |-> 200],
     [json |-> EvalTree, ms |-> 11, status |-> 200],
     [json |-> EvalTree, ms |-> 2000, status |-> 404],
     [json |-> EvalTree, ms |-> 2001, status |-> 200],
     [json |-> JNull, ms |-> 10, status |-> 200]}

InitEval ==
    /\ Quiet
    /\ \E rule \in EvalRules : \E response \in EvalResponses :
         call = [fn |-> "evaluate_rule", rule |-> rule, response |-> response]
    /\ out = None

CallEval ==
    /\ call.fn = "evaluate_rule" /\ out = None
    /\ out' = [value |-> evaluate_rule(call.rule, call.response.json,
                                       call.response.ms, call.response.status)]
    /\ UNCHANGED <<steps, pc, idx, ctx, curl, cur, tr, results, errors, sent,
                   ret, call>>

NextEval == CallEval

SpecEval == InitEval /\ [][NextEval]_vars

\* evaluate_rule was called and has returned or raised
Evaluated == out # None /\ call.fn = "evaluate_rule"
\* evaluate_rule was called on a rule of the type and has returned
EvaluatedType(type) ==
    /\ Evaluated
    /\ RuleGet(call.rule, "type", JNull) = JStr(type)
    /\ ~out.value.raised
\* the parts of the rule and what the resolver finds for its field
TheField == RuleGet(call.rule, "field", JNull)
TheConfig == RuleGet(call.rule, "config", JObj(<<>>))
Resolved == get_nested_field(call.response.json, TheField)
FieldUsable == TheField.t \in {"str", "null"}

\* C11: evaluate_rule is total: for every rule configuration and every
\* response it returns a result whose verdict is PASS or FAIL and never
\* raises; an unrecognized rule type gives FAIL with an unknown-rule-type
\* reason, and an internal fault gives FAIL with a diagnostic reason.
C11_EvaluateIsTotal ==
    Evaluated =>
        /\ ~out.value.raised
        /\ out.value.result \in {"PASS", "FAIL"}
        /\ out.value.result = "FAIL" => out.value.reason # JNull
        /\ UnknownType(call.rule) =>
              /\ out.value.result = "FAIL"
              /\ out.value.reason = Reason("Unknown rule type")

ConfigIsDict == TheConfig.t = "obj"
Passed == out.value.result = "PASS"

\* the configuration has the shape the registry declares for the type
ConfigAsDeclared(type) ==
    CASE type \in {s_field_exists, s_field_not_null} -> TRUE
      [] type = s_custom_expression ->
            ConfigIsDict /\ DictGet(TheConfig, s_expectedValue, JStr(<<>>)).t = "str"
      [] OTHER -> ConfigIsDict

NotFoundReason(type) ==
    IF type = s_success_flag THEN Reason("Field not found")
    ELSE Reason("Field does not exist")

MaxMsOf == DictGet(TheConfig, s_maxMs, JNum(2000))

\* C13: the response_time rule passes exactly when the elapsed time is at most
\* config.maxMs, the boundary included, with maxMs 2000 when not configured:
\* an elapsed time equal to maxMs is PASS and maxMs + 1 is FAIL.
C13_ResponseTimeInclusive ==
    (EvaluatedType(s_response_time) /\ ConfigIsDict /\ MaxMsOf.t = "num") =>
        /\ Passed <=> call.response.ms <= MaxMsOf.v
        /\ call.response.ms = MaxMsOf.v => Passed
        /\ call.response.ms = MaxMsOf.v + 1 => ~Passed

\* C13 witness: with no maxMs configured an elapsed time of 2000 passed
C13_Witness ==
    /\ EvaluatedType(s_response_time)
    /\ ConfigIsDict /\ ~HasKey(TheConfig, s_maxMs)
    /\ call.response.ms = 2000
    /\ Passed

NotBlank(s) == \E i \in 1..Len(s) : ~IsSpace(s[i])
HasValue(v) ==
    CASE v.t = "null" -> FALSE
      [] v.t = "str" -> NotBlank(v.v)
      [] v.t \in {"arr", "obj"} -> Len(v.v) > 0
      [] OTHER -> TRUE

\* C14: the field_not_null rule passes exactly when the field is found, its
\* value is not null, a string value is non-empty after trimming whitespace
\* and an array or object value has at least one element; numbers (0 too) and
\* booleans (false too) that are found always pass.
C14_FieldNotNull ==
    (EvaluatedType(s_field_not_null) /\ ~Resolved.exc) =>
        /\ Passed <=> (Resolved.found /\ HasValue(Resolved.value))
        /\ (Resolved.found /\ Resolved.value.t \in {"num", "bool"}) => Passed

\* C14 witness: the rule passed on a field holding the number 0
C14_Witness ==
    /\ EvaluatedType(s_field_not_null)
    /\ Resolved.found /\ Resolved.value = JNum(0)
    /\ Passed

\* the JSON type of a value, by its name
TypeNameOf(v) ==
    CASE v.t = "null" -> <<"n", "u", "l", "l">>
      [] v.t = "bool" -> <<"b", "o", "o", "l", "e", "a", "n">>
      [] v.t = "num" -> <<"n", "u", "m", "b", "e", "r">>
      [] v.t = "str" -> <<"s", "t", "r", "i", "n", "g">>
      [] v.t = "arr" -> <<"a", "r", "r", "a", "y">>
      [] v.t = "obj" -> <<"o", "b", "j", "e", "c", "t">>

\* the values of the response body, the body and null
EvalValues ==
    {EvalTree.v[i].v : i \in 1..Len(EvalTree.v)} \cup {EvalTree, JNull}

\* C15: get_type_name classifies every JSON value into exactly one of null,
\* boolean, number, string, array, object, never reporting a boolean as a
\* number, and the field_type rule passes exactly when the field is found and
\* the type name of its value equals config.expectedType (default string).
C15_TypeNameAndFieldType ==
    /\ Evaluated => \A v \in EvalValues : get_type_name(v) = TypeNameOf(v)
    /\ (EvaluatedType(s_field_type) /\ ConfigIsDict /\ ~Resolved.exc) =>
          (Passed <=>
              /\ Resolved.found
              /\ JStr(TypeNameOf(Resolved.value))
                    = DictGet(TheConfig, s_expectedType, JStr(s_string)))

\* C15 witness: a field_type rule expecting boolean passed on a boolean field
C15_Witness ==
    /\ EvaluatedType(s_field_type)
    /\ ConfigIsDict /\ DictGet(TheConfig, s_expectedType, JNull) = JStr(s_boolean)
    /\ Resolved.found /\ Resolved.value.t = "bool"
    /\ Passed

\* C16: the success_flag rule passes exactly when the field is found and its
\* value equals config.expectedValue (default true) as JSON values, with no
\* implicit coercion: a found number 1 or 0, or the string "true", does not
\* equal the boolean true or false.
C16_SuccessFlagNoCoercion ==
    (EvaluatedType(s_success_flag) /\ ConfigIsDict /\ ~Resolved.exc) =>
        (Passed <=>
            /\ Resolved.found
            /\ Resolved.value = DictGet(TheConfig, s_expectedValue, JBool(TRUE)))

\* a JSON value read as a number: a number, or a string holding a numeral
NumParse(v) ==
    CASE v.t = "num" -> [ok |-> TRUE, num |-> v.v, den |-> 1]
      [] v.t = "str" -> PyFloatStr(v.v)
      [] OTHER -> [ok |-> FALSE, num |-> 0, den |-> 1]

NumericVerdict(a, b, greater) ==
    IF a.ok /\ b.ok
    THEN Passed <=> (IF greater THEN a.num * b.den > b.num * a.den
                     ELSE a.num * b.den < b.num * a.den)
    ELSE /\ ~Passed
         /\ out.value.reason = Reason("Cannot compare non-numeric values")

\* C17: for custom_expression with operator greater_than or less_than and a
\* found field, the field value and the configured expected value are both
\* parsed numerically (a string holding a numeral counts as a number): the
\* verdict is PASS exactly when both parse and the strict comparison holds;
\* when a side is not numeric the verdict is FAIL with a cannot-compare reason
\* and nothing is raised.
C17_NumericComparison ==
    \A op \in {s_greater_than, s_less_than} :
        (/\ EvaluatedType(s_custom_expression)
         /\ ConfigAsDeclared(s_custom_expression)
         /\ DictGet(TheConfig, s_operator, JStr(s_equals)) = JStr(op)
         /\ ~Resolved.exc /\ Resolved.found) =>
            NumericVerdict(NumParse(Resolved.value),
                           NumParse(JStr(StripQuotes(
                               DictGet(TheConfig, s_expectedValue, JStr(<<>>)).v))),
                           op = s_greater_than)

----------------------------------------------------------------------------
(* get_nested_field called on its own *)

ResolveTrees ==
    Trees \cup {JNull, JObj(<<KV(<<"b">>, JNull)>>),
                JObj(<<KV(<<>>, JNum(1)),
                       KV(<<"a">>, JObj(<<KV(<<>>, JNull)>>))>>)}
ResolvePaths == Paths \cup {<<>>, <<"a", ".">>, <<".", "a">>, <<"0", "1">>}

InitResolve ==
    /\ Quiet
    /\ \E tree \in ResolveTrees : \E path \in ResolvePaths :
         call = [fn |-> "get_nested_field", tree |-> tree, path |-> path]
    /\ out = None

CallResolve ==
    /\ call.fn = "get_nested_field" /\ out = None
    /\ out' = [value |-> get_nested_field(call.tree, JStr(call.path))]
    /\ UNCHANGED <<steps, pc, idx, ctx, curl, cur, tr, results, errors, sent,
                   ret, call>>

NextResolve == CallResolve

SpecResolve == InitResolve /\ [][NextResolve]_vars

NotFound == [value |-> JNull, found |-> FALSE, exc |-> FALSE]
AllDigits(seg) ==
    seg # <<>> /\ \A i \in 1..Len(seg) : seg[i] \in Range(Digits)

\* the walk over the segments from segment i on
RECURSIVE Walk(_, _, _)
Walk(current, segs, i) ==
    IF i > Len(segs) THEN [value |-> current, found |-> TRUE, exc |-> FALSE]
    ELSE IF current = JNull THEN NotFound
    ELSE IF AllDigits(segs[i])
         THEN IF current.t = "arr" /\ DigitsVal(segs[i]) < Len(current.v)
              THEN Walk(current.v[DigitsVal(segs[i]) + 1], segs, i + 1)
              ELSE NotFound
    ELSE IF current.t = "obj" /\ (\E j \in 1..Len(current.v) : current.v[j].k = segs[i])
         THEN Walk(GetKey(current, segs[i]), segs, i + 1)
         ELSE NotFound

Resolving == out # None /\ call.fn = "get_nested_field"

\* C18 as stated: get_nested_field walks the dot-separated segments of the
\* path from the root, for every path.
C18_Original ==
    Resolving => out.value = Walk(call.tree, Split(call.path, "."), 1)

\* C18, amended: for a non-empty path get_nested_field walks the dot-separated
\* segments from the root: a segment of digits succeeds only on an array with
\* 0 <= index < length, any other segment only as an existing key of an
\* object; it returns (null, false) when it meets a null before the last
\* segment, an index out of range, a missing key or a value that is no
\* container, and (value, true) otherwise, a final null included.  An empty
\* path is reported as not found, whatever the root.
C18_ResolveWalksSegments ==
    Resolving =>
        IF call.path = <<>> THEN out.value = NotFound
        ELSE out.value = Walk(call.tree, Split(call.path, "."), 1)

\* C18 witness: a path of two segments, the second an index, ended on a null
\* and was found
C18_Witness ==
    /\ Resolving
    /\ call.path = <<"a", ".", "1">>
    /\ out.value = [value |-> JNull, found |-> TRUE, exc |-> FALSE]

----------------------------------------------------------------------------
(* parse_curl called on its own *)

\* the longest command line, in flag groups
MaxGroups == 3

\* a flag group: its text on the command line and, for a flag with an
\* argument, the argument as the shell hands it over
Group(kind, text, arg) == [kind |-> kind, text |-> text, arg |-> arg]
GroupPool ==
    {Group("url",
           <<"h", ".", "c">>,
           <<"h", ".", "c">>),
     Group("method",
           <<"-", "X", " ", "p", "u", "t">>,
           <<"p", "u", "t">>),
     Group("method",
           <<"-", "-", "r", "e", "q", "u", "e", "s", "t", " ", "G", "E", "T">>,
           <<"G", "E", "T">>),
     Group("data",
           <<"-", "d", " ", "a", "=", "1">>,
           <<"a", "=", "1">>),
     Group("data",
           <<"-", "-", "d", "a", "t", "a", " ", "b">>,
           <<"b">>),
     Group("data",
           <<"-", "-", "d", "a", "t", "a", "-", "r", "a", "w", " ", "'", "c", " ", "d", "'">>,
           <<"c", " ", "d">>),
     Group("data",
           <<"-", "-", "d", "a", "t", "a", "-", "b", "i", "n", "a", "r", "y", " ", "@", "f">>,
           <<"@", "f">>),
     Group("data",
           <<"-", "-", "j", "s", "o", "n", " ", "'", "{", "\"", "a", "\"", ":", " ", "1", "}", "'">>,
           <<"{", "\"", "a", "\"", ":", " ", "1", "}">>),
     Group("header",
           <<"-", "H", " ", "'", "A", ":", " ", "b", "'">>,
           <<"A", ":", " ", "b">>),
     Group("insecure",
           <<"-", "k">>,
           <<>>)}

Distinct(gs) == \A i, j \in 1..Len(gs) : gs[i] = gs[j] => i = j
CommandLines ==
    {gs \in UNION {[1..n -> GroupPool] : n \in 1..MaxGroups} : Distinct(gs)}

RECURSIVE CommandText(_)
CommandText(gs) ==
    IF gs = <<>> THEN s_curl
    ELSE CommandText(SubSeq(gs, 1, Len(gs) - 1)) \o <<" ">> \o gs[Len(gs)].text

InitParse ==
    /\ Quiet
    /\ \E gs \in CommandLines : call = [fn |-> "parse_curl", groups |-> gs]
    /\ out = None

CallParse ==
    /\ call.fn = "parse_curl" /\ out = None
    /\ out' = [value |-> parse_curl(CommandText(call.groups))]
    /\ UNCHANGED <<steps, pc, idx, ctx, curl, cur, tr, results, errors, sent,
                   ret, call>>

NextParse == CallParse

SpecParse == InitParse /\ [][NextParse]_vars

Parsed == out # None /\ call.fn = "parse_curl" /\ out.value.ok
GroupsOf(kind) == {i \in 1..Len(call.groups) : call.groups[i].kind = kind}
Last(is) == CHOOSE i \in is : \A j \in is : j <= i
LastArg(kind) == call.groups[Last(GroupsOf(kind))].arg

\* C19: a command line with a data flag (-d, --data, --data-raw, --data-binary
\* or --json) and its payload, and with no -X/--request flag, parses to the
\* method POST and the payload as the body (the payload of the last data flag
\* when there are several); with neither a data flag nor -X the method is GET
\* and the body is null.
C19_DataPromotesToPost ==
    Parsed /\ GroupsOf("method") = {} =>
        IF GroupsOf("data") # {}
        THEN /\ out.value.req.method = s_POST
             /\ out.value.req.data = JStr(LastArg("data"))
        ELSE /\ out.value.req.method = s_GET
             /\ out.value.req.data = JNull

\* C19 witness: a command line with the URL first and a quoted payload, and
\* no -X, was parsed
C19_Witness ==
    /\ Parsed
    /\ GroupsOf("method") = {}
    /\ GroupsOf("url") = {1}
    /\ GroupsOf("data") = {2}
    /\ out.value.req.data = JStr(<<"c", " ", "d">>)
    /\ out.value.req.method = s_POST

\* C20: when -X/--request <verb> is given explicitly, the parsed method is the
\* uppercased verb for every ordering of the -X flag relative to the data flags
\* and the URL: GET is promoted to POST only when no method was given.
C20_ExplicitMethodInEveryOrder ==
    Parsed /\ Cardinality(GroupsOf("method")) = 1 =>
        out.value.req.method = Upper(LastArg("method"))

----------------------------------------------------------------------------
(* parse_curl called on command lines whose flag arguments look like URLs *)

\* the longest such command line, in flag groups
MaxUrlGroups == 2

\* "url" is a bare token that looks like a URL, "word" a bare token that does
\* not, "arg" a flag with an argument that looks like a URL
UrlGroupPool ==
    {Group("url",
           <<"h", ".", "c">>,
           <<"h", ".", "c">>),
     Group("url",
           <<"'", "h", "t", "t", "p", ":", "/", "/", "a", ".", "b", "/", "p", "'">>,
           <<"h", "t", "t", "p", ":", "/", "/", "a", ".", "b", "/", "p">>),
     Group("word",
           <<"w", "o", "r", "d">>,
           <<"w", "o", "r", "d">>),
     Group("arg",
           <<"-", "o", " ", "o", ".", "t", "x", "t">>,
           <<"o", ".", "t", "x", "t">>),
     Group("arg",
           <<"-", "-", "o", "u", "t", "p", "u", "t", " ", "h", "t", "t", "p", ":", "/", "/", "o", ".", "c">>,
           <<"h", "t", "t", "p", ":", "/", "/", "o", ".", "c">>),
     Group("arg",
           <<"-", "w", " ", "'", "%", "{", "t", ".", "x", "}", "'">>,
           <<"%", "{", "t", ".", "x", "}">>),
     Group("arg",
           <<"-", "-", "w", "r", "i", "t", "e", "-", "o", "u", "t", " ", "w", ".", "f">>,
           <<"w", ".", "f">>),
     Group("arg",
           <<"-", "c", " ", "c", ".", "j", "a", "r">>,
           <<"c", ".", "j", "a", "r">>),
     Group("arg",
           <<"-", "-", "c", "o", "o", "k", "i", "e", "-", "j", "a", "r", " ", "h", "t", "t", "p", "s", ":", "/", "/", "j", ".", "c">>,
           <<"h", "t", "t", "p", "s", ":", "/", "/", "j", ".", "c">>),
     Group("arg",
           <<"-", "b", " ", "b", ".", "c">>,
           <<"b", ".", "c">>),
     Group("arg",
           <<"-", "-", "c", "o", "o", "k", "i", "e", " ", "k", ".", "c">>,
           <<"k", ".", "c">>),
     Group("arg",
           <<"-", "X", " ", "x", ".", "y">>,
           <<"x", ".", "y">>),
     Group("arg",
           <<"-", "H", " ", "h", "t", "t", "p", ":", "/", "/", "e", ".", "f">>,
           <<"h", "t", "t", "p", ":", "/", "/", "e", ".", "f">>),
     Group("arg",
           <<"-", "d", " ", "d", ".", "d">>,
           <<"d", ".", "d">>),
     Group("arg",
           <<"-", "-", "j", "s", "o", "n", " ", "j", ".", "j">>,
           <<"j", ".", "j">>),
     Group("arg",
           <<"-", "A", " ", "a", ".", "a">>,
           <<"a", ".", "a">>)}

UrlCommandLines ==
    {gs \in UNION {[1..n -> UrlGroupPool] : n \in 1..MaxUrlGroups} : Distinct(gs)}

InitUrl ==
    /\ Quiet
    /\ \E gs \in UrlCommandLines : call = [fn |-> "parse_curl", groups |-> gs]
    /\ out = None

SpecUrl == InitUrl /\ [][NextParse]_vars

ParseEnded == out # None /\ call.fn = "parse_curl"
WithScheme(token) == IF HasScheme(token) THEN token ELSE s_https \o token

\* C21: the URL of a parsed descriptor is the last bare token that looks like
\* a URL, with https:// prefixed when it has no scheme: the argument of
\* -o/--output, -w/--write-out, -c/--cookie-jar, -b/--cookie, -X, -H, -d,
\* --json or -A is never taken as the URL, though it holds a dot or a scheme.
\* Every descriptor has a non-empty url that starts with http:// or https://,
\* and a command line without a URL token fails with the missing-URL error.
C21_UrlIsBareToken ==
    ParseEnded =>
        IF GroupsOf("url") # {}
        THEN /\ out.value.ok
             /\ out.value.req.url = JStr(WithScheme(LastArg("url")))
             /\ HasScheme(out.value.req.url.v)
        ELSE /\ ~out.value.ok
             /\ out.value.why = "No URL found"

\* C21 witness: a URL without a scheme followed by a flag whose argument holds
\* a scheme was parsed
C21_Witness ==
    /\ ParseEnded
    /\ GroupsOf("url") = {1} /\ GroupsOf("arg") = {2}
    /\ HasScheme(call.groups[2].arg)
    /\ out.value.ok
    /\ out.value.req.url = JStr(s_https \o call.groups[1].arg)

----------------------------------------------------------------------------
(* parse_curl called on command lines that set headers *)

\* the most header flags of such a command line
MaxHeaderGroups == 3

\* a "header" group tells the key and the value its flag writes; an -H without
\* a colon writes nothing
Header(key, value) == [key |-> key, value |-> value]
HeaderGroupPool ==
    {Group("header",
           <<"-", "-", "h", "e", "a", "d", "e", "r", " ", "'", "A", ":", " ", "1", "'">>,
           Header(<<"A">>, <<"1">>)),
     Group("header",
           <<"-", "H", " ", "'", " ", "A", " ", ":", "2", ":", "3", " ", "'">>,
           Header(<<"A">>, <<"2", ":", "3">>)),
     Group("header",
           <<"-", "H", " ", "C", "o", "n", "t", "e", "n", "t", "-", "T", "y", "p", "e", ":", "t">>,
           Header(<<"C", "o", "n", "t", "e", "n", "t", "-", "T", "y", "p", "e">>, <<"t">>)),
     Group("header",
           <<"-", "-", "j", "s", "o", "n", " ", "'", "{", "}", "'">>,
           Header(<<"C", "o", "n", "t", "e", "n", "t", "-", "T", "y", "p", "e">>, <<"a", "p", "p", "l", "i", "c", "a", "t", "i", "o", "n", "/", "j", "s", "o", "n">>)),
     Group("header",
           <<"-", "A", " ", "'", "u", " ", "b", "'">>,
           Header(<<"U", "s", "e", "r", "-", "A", "g", "e", "n", "t">>, <<"u", " ", "b">>)),
     Group("header",
           <<"-", "-", "u", "s", "e", "r", "-", "a", "g", "e", "n", "t", " ", "u">>,
           Header(<<"U", "s", "e", "r", "-", "A", "g", "e", "n", "t">>, <<"u">>)),
     Group("header",
           <<"-", "H", " ", "U", "s", "e", "r", "-", "A", "g", "e", "n", "t", ":", "x">>,
           Header(<<"U", "s", "e", "r", "-", "A", "g", "e", "n", "t">>, <<"x">>)),
     Group("ignored", <<"-", "H", " ", "n", "o", "c", "o", "l", "o", "n">>, <<>>)}

HeaderCommandLines ==
    {<<Group("url", <<"h", ".", "c">>, <<"h", ".", "c">>)>> \o gs :
        gs \in {hs \in UNION {[1..n -> HeaderGroupPool] : n \in 1..MaxHeaderGroups} :
                    Distinct(hs)}}

InitHeaders ==
    /\ Quiet
    /\ \E gs \in HeaderCommandLines : call = [fn |-> "parse_curl", groups |-> gs]
    /\ out = None

SpecHeaders == InitHeaders /\ [][NextParse]_vars

Writers(key) == {i \in GroupsOf("header") : call.groups[i].arg.key = key}

\* C22: the headers of the descriptor follow last-write-wins per key over the
\* sequence of flags: -H "k: v" is split on its first colon and trimmed,
\* --json writes Content-Type: application/json and -A writes User-Agent, each
\* at its position, and the final value of every key is the one written by the
\* last flag that set it; no other key is present.
C22_HeadersLastWriteWins ==
    Parsed =>
        /\ DOMAIN out.value.req.headers =
                {call.groups[i].arg.key : i \in GroupsOf("header")}
        /\ \A key \in DOMAIN out.value.req.headers :
                out.value.req.headers[key] = call.groups[Last(Writers(key))].arg.value

\* C22 witness: three flags wrote the same key and the last one's value stands
C22_Witness ==
    /\ Parsed
    /\ Cardinality(Writers(s_UserAgent)) = 3
    /\ out.value.req.headers[s_UserAgent] = call.groups[4].arg.value

----------------------------------------------------------------------------
(* validate_rule_config called on its own *)

ValidateTypes == EvalTypes \cup {JNull, JStr(<<>>)}
ValidateFields ==
    {Absent, JNull, JStr(<<>>), JStr(<<"s">>), JStr(<<"m">>), JNum(3)}
ValidateConfigs ==
    EvalConfigs \cup
    {JObj(<<KV(s_expectedType, JStr(<<"i", "n", "t", "e", "g", "e", "r">>))>>),
     JObj(<<KV(s_expectedStatus, JStr(<<"a", "b", "c">>))>>),
     JObj(<<KV(s_expectedValue, JStr(<<"y", "e", "s">>))>>),
     JObj(<<KV(s_operator, JStr(<<"b", "e", "t", "w", "e", "e", "n">>))>>)}
ValidateRules ==
    {RuleOf(type, field, config) :
        type \in ValidateTypes, field \in ValidateFields, config \in ValidateConfigs}
\* available_fields: not given, empty, and two lists
FieldLists ==
    {JNull, JArr(<<>>), JArr(<<JStr(<<"s">>)>>),
     JArr(<<JStr(<<"n">>), JStr(<<"m">>)>>)}

InitValidate ==
    /\ Quiet
    /\ \E rule \in ValidateRules : \E fields \in FieldLists :
         call = [fn |-> "validate_rule_config", rule |-> rule, fields |-> fields]
    /\ out = None

CallValidate ==
    /\ call.fn = "validate_rule_config" /\ out = None
    /\ out' = [value |-> validate_rule_config(call.rule, call.fields)]
    /\ UNCHANGED <<steps, pc, idx, ctx, curl, cur, tr, results, errors, sent,
                   ret, call>>

NextValidate == CallValidate

SpecValidate == InitValidate /\ [][NextValidate]_vars

Validated == out # None /\ call.fn = "validate_rule_config"
Accepted == ~out.value.raised /\ out.value.valid
TypeKnown ==
    /\ "type" \in DOMAIN call.rule
    /\ call.rule.type.t = "str"
    /\ call.rule.type.v \in RuleTypeNames
NeedsField == TypeKnown /\ RequiresField(call.rule.type.v)
FieldMissing ==
    "field" \notin DOMAIN call.rule \/ call.rule.field \in {JNull, JStr(<<>>)}
FieldListed ==
    /\ "field" \in DOMAIN call.rule
    /\ \E i \in 1..Len(call.fields.v) : call.fields.v[i] = call.rule.field
WithoutField == [k \in DOMAIN call.rule \ {"field"} |-> call.rule[k]]
FieldErrors == {"Field is required", "Field not found in response"}

\* what C23 says apart from the list of fields: an unknown type is rejected, a
\* missing or empty field of a type that requires one is rejected, and the
\* field of a type that requires none does not matter
TypeAndFieldChecked ==
    /\ ~TypeKnown => ~Accepted
    /\ NeedsField /\ FieldMissing => ~Accepted
    /\ TypeKnown /\ ~NeedsField =>
            /\ out.value.error \notin FieldErrors
            /\ out.value = validate_rule_config(WithoutField, call.fields)

\* C23 as stated: whenever a list of available fields is supplied, an empty
\* one included, a rule of a type that requires a field is rejected when its
\* field is not in the list.
C23_Original ==
    Validated =>
        /\ TypeAndFieldChecked
        /\ NeedsField /\ call.fields # JNull /\ ~FieldListed => ~Accepted

\* C23, amended: validate_rule_config rejects a rule whose type is not in the
\* registry, rejects a rule of a type that requires a field whose field is
\* missing or empty, and, whenever a non-empty list of available fields is
\* supplied, rejects such a rule whose field is not in the list; with no list
\* or an empty list the field is not looked up.  The field of a type that
\* requires none never matters.
C23_ValidateConfig ==
    Validated =>
        /\ TypeAndFieldChecked
        /\ NeedsField /\ call.fields \notin {JNull, JArr(<<>>)} /\ ~FieldListed
                => ~Accepted
        /\ call.fields \in {JNull, JArr(<<>>)}
                => out.value.error # "Field not found in response"

\* C23 witness: a rule with field s of a type that requires a field was
\* accepted against the empty list
C23_Witness ==
    /\ Validated
    /\ NeedsField /\ ~FieldMissing
    /\ call.fields = JArr(<<>>)
    /\ Accepted

----------------------------------------------------------------------------
(* extract_response_fields called on its own *)

\* the default of max_depth
DefaultMaxDepth == 5
\* the largest max_depth that is passed explicitly
MaxDepth == 3

\* {"a": {"a": ... 1}} with n objects
RECURSIVE Chain(_)
Chain(n) == IF n = 0 THEN JNum(1) ELSE JObj(<<KV(<<"a">>, Chain(n - 1))>>)

ListTrees ==
    ResolveTrees \cup
    {JNum(1), JArr(<<>>), JObj(<<>>), Chain(DefaultMaxDepth + 1),
     JObj(<<KV(<<"a">>, JArr(<<>>)), KV(<<"b">>, JObj(<<>>))>>),
     JObj(<<KV(<<"a">>, JArr(<<JObj(<<>>)>>))>>),
     JObj(<<KV(<<"a">>, JArr(<<JObj(<<KV(<<"b">>, JNum(1))>>),
                              JObj(<<KV(<<"c">>, JNum(2))>>)>>))>>),
     JArr(<<JArr(<<JNum(1), JNum(2)>>), JArr(<<JNum(3)>>)>>),
     JObj(<<KV(<<>>, JObj(<<KV(<<"a">>, JNum(1))>>))>>),
     JObj(<<KV(<<"a", ".", "b">>, JNum(1))>>)}

InitList ==
    /\ Quiet
    /\ \E tree \in ListTrees : \E max_depth \in {Absent} \cup {JNum(d) : d \in 0..MaxDepth} :
         call = [fn |-> "extract_response_fields", tree |-> tree,
                 max_depth |-> max_depth]
    /\ out = None

CallList ==
    /\ call.fn = "extract_response_fields" /\ out = None
    /\ out' = [value |-> extract_response_fields(call.tree, <<>>,
                    IF call.max_depth = Absent THEN DefaultMaxDepth
                    ELSE call.max_depth.v)]
    /\ UNCHANGED <<steps, pc, idx, ctx, curl, cur, tr, results, errors, sent,
                   ret, call>>

NextList == CallList

SpecList == InitList /\ [][NextList]_vars

Listed == out # None /\ call.fn = "extract_response_fields"
DepthLimit ==
    IF call.max_depth = Absent THEN DefaultMaxDepth ELSE call.max_depth.v

\* the positions of at most d levels below a value, as sequences of segments:
\* every key of an object, and index 0 only of an array
RECURSIVE Below(_, _)
Under(segment, value, d) ==
    {<<segment>>} \cup {<<segment>> \o q : q \in Below(value, d - 1)}
Below(value, d) ==
    IF d <= 0 THEN {}
    ELSE IF value.t = "obj"
    THEN UNION {Under(value.v[i].k, value.v[i].v, d) : i \in 1..Len(value.v)}
    ELSE IF value.t = "arr" /\ Len(value.v) > 0
    THEN Under(<<"0">>, value.v[1], d)
    ELSE {}

\* the value at a position
RECURSIVE At(_, _)
At(value, q) ==
    IF q = <<>> THEN value
    ELSE IF value.t = "obj" THEN At(GetKey(value, q[1]), Tail(q))
    ELSE At(value.v[1], Tail(q))
Front(q) == SubSeq(q, 1, Len(q) - 1)

\* the first item of an array is shown by its own path when it is a scalar
\* and by the paths below it when it is a container
ShownItself(tree, q) ==
    At(tree, Front(q)).t = "obj" \/ ~IsContainer(At(tree, q))

\* C24: extract_response_fields returns the reachable dot-paths: every path it
\* returns is the path of a position reached through keys of objects and index
\* 0 of arrays, at most max_depth levels below the root (5 by default), and
\* every key of every object reached within that depth, and the first item of
\* every array, is listed.
C24_ListFieldsReachable ==
    Listed =>
        /\ \A i \in 1..Len(out.value) :
               \E q \in Below(call.tree, DepthLimit) : out.value[i] = JoinDots(q)
        /\ \A q \in Below(call.tree, DepthLimit) :
               ShownItself(call.tree, q) =>
                   \E i \in 1..Len(out.value) : out.value[i] = JoinDots(q)

----------------------------------------------------------------------------
(* Invariants of a flow run *)

AllFail(rule_results) ==
    /\ Len(rule_results) > 0
    /\ \A i \in 1..Len(rule_results) : rule_results[i].result = "FAIL"

C26_ResultsShape ==
    \A r \in Runs :
        /\ \A i \in 1..Len(results[r]) : results[r][i].stepIndex = i - 1
        /\ \A i \in 1..(Len(results[r]) - 1) : results[r][i].error = JNull
        /\ Len(errors[r]) <= 1
        /\ Len(results[r]) <= Len(steps[r])
        /\ pc[r] = "done" =>
              /\ ret[r].results = results[r] /\ ret[r].errors = errors[r]
              /\ ret[r].totalSteps = Len(steps[r])
              /\ ret[r].completedSteps = Len(results[r])
              /\ ret[r].completedSteps < ret[r].totalSteps =>
                    /\ Len(results[r]) > 0
                    /\ results[r][Len(results[r])].error # JNull

\* C26 witness: a flow of two steps returned after its first step had ended
\* with an error
C26_Witness ==
    \E r \in Runs :
        /\ pc[r] = "done"
        /\ ret[r].totalSteps = 2 /\ ret[r].completedSteps = 1
        /\ Len(errors[r]) = 1
        /\ results[r][1].error # JNull

\* the steps of run r that extracted the name, by their place in results
Extractors(r, name) ==
    {i \in 1..Len(results[r]) : name \in DOMAIN results[r][i].extractedVars}
ExtractedNames(r) ==
    UNION {DOMAIN results[r][i].extractedVars : i \in 1..Len(results[r])}
\* the context holds every extracted name with the value of its last extractor
LastWriteWins(r, context) ==
    /\ DOMAIN context = ExtractedNames(r)
    /\ \A name \in DOMAIN context :
          context[name] = results[r][Last(Extractors(r, name))].extractedVars[name]

\* C27: within a flow run the set of names in the context never shrinks from
\* step to step, every variable holds the value extracted by the most recent
\* completed step that extracted its name, and the returned executionContext
\* is the union of the steps' extractedVars under that order.
C27_ContextGrows ==
    /\ [][\A r \in Runs : pc[r] # "pending" => DOMAIN RunCtx(r) \subseteq DOMAIN ctx'[ContextKey(r)]]_vars
    /\ [](\A r \in Runs :
            /\ pc[r] \notin {"idle", "pending"} => LastWriteWins(r, RunCtx(r))
            /\ pc[r] = "done" => LastWriteWins(r, ret[r].executionContext))

\* C27 witness: two steps extracted t with different values, and the flow
\* returned the second
C27_Witness ==
    \E r \in Runs :
        /\ pc[r] = "done" /\ Extractors(r, v_t) = {1, 2}
        /\ results[r][1].extractedVars[v_t] # results[r][2].extractedVars[v_t]
        /\ ret[r].executionContext[v_t] = results[r][2].extractedVars[v_t]

----------------------------------------------------------------------------
(* Invariants of evaluate_rule *)

\* C28: every result evaluate_rule returns, for any rule type, configuration
\* and response, has the verdict PASS exactly when its reason is null: a PASS
\* has no reason and a FAIL carries a non-empty reason.
C28_PassIffNoReason ==
    (Evaluated /\ ~out.value.raised) =>
        /\ out.value.result \in {"PASS", "FAIL"}
        /\ out.value.result = "PASS" <=> out.value.reason = JNull
        /\ out.value.result = "FAIL" => out.value.reason.kind # ""

\* C28 witness: a comparison that could not be made numerically failed with
\* the reason of the comparison, not the general one
C28_Witness ==
    /\ EvaluatedType(s_custom_expression)
    /\ out.value.result = "FAIL"
    /\ out.value.reason = Reason("Cannot compare non-numeric values")

----------------------------------------------------------------------------
(* extract_response_fields against get_nested_field *)

\* get_nested_field finds the path and returns the value of a position of the
\* tree that has this path
ResolvedAtPosition(tree, path, r) ==
    /\ ~r.exc /\ r.found
    /\ \E q \in Below(tree, DepthLimit) : JoinDots(q) = path /\ r.value = At(tree, q)

\* C29: for every JSON tree, every path extract_response_fields returns is
\* resolved by get_nested_field as found, with the value at that position of
\* the tree.
C29_ListedPathsResolve ==
    Listed =>
        \A i \in 1..Len(out.value) :
            ResolvedAtPosition(call.tree, out.value[i],
                               get_nested_field(call.tree, JStr(out.value[i])))

----------------------------------------------------------------------------
(* A rule is validated and, when it is accepted, evaluated *)

InitAgree ==
    /\ Quiet
    /\ \E rule \in ValidateRules : \E response \in EvalResponses :
         call = [fn |-> "validate_then_evaluate", rule |-> rule,
                 response |-> response]
    /\ out = None

\* validate_rule_config(rule), no list of fields given
ValidateRule ==
    /\ call.fn = "validate_then_evaluate" /\ out = None
    /\ out' = [valid |-> validate_rule_config(call.rule, JNull)]
    /\ UNCHANGED <<steps, pc, idx, ctx, curl, cur, tr, results, errors, sent,
                   ret, call>>

\* evaluate_rule on the rule that was accepted
EvaluateAccepted ==
    /\ call.fn = "validate_then_evaluate" /\ out # None
    /\ DOMAIN out = {"valid"}
    /\ ~out.valid.raised /\ out.valid.valid
    /\ out' = [valid |-> out.valid,
               value |-> evaluate_rule(call.rule, call.response.json,
                                       call.response.ms, call.response.status)]
    /\ UNCHANGED <<steps, pc, idx, ctx, curl, cur, tr, results, errors, sent,
                   ret, call>>

NextAgree == ValidateRule \/ EvaluateAccepted

SpecAgree == InitAgree /\ [][NextAgree]_vars

AcceptedAndEvaluated ==
    /\ out # None /\ call.fn = "validate_then_evaluate"
    /\ "value" \in DOMAIN out
FieldPresent ==
    \/ ~RequiresField(call.rule.type.v)
    \/ get_nested_field(call.response.json, RuleGet(call.rule, "field", JNull)).found

\* C30: a rule configuration that validate_rule_config accepts is evaluated
\* by evaluate_rule without an internal fault: on every response that has
\* the rule's field the call returns a result whose reason is not the 'Rule
\* evaluation error' of the except branch.
C30_AcceptedEvaluatesCleanly ==
    (AcceptedAndEvaluated /\ FieldPresent) =>
        /\ ~out.value.raised
        /\ out.value.reason # Reason("Rule evaluation error")

====
